---- MODULE Spec2Model ----
(***************************************************************************)
(* Model of the canvas racing game: the Game component's loop, the tile    *)
(* window, the CollisionDetector and the PlayerController.                 *)
(*                                                                         *)
(* Fixed-point conventions: lane positions, distances and tolerances are   *)
(* integers in thousandths of a lane (lane 3 is 3000, shipTolerance 0.4 is *)
(* 400); tile lanes and rows are plain integers; times are milliseconds;   *)
(* scroll offsets are thousandths of a pixel (speed in px/s times ms).     *)
(***************************************************************************)
EXTENDS Integers, Sequences, FiniteSets, TLC

VARIABLES
  gameStateRef,      \* gameStateRef.current: the run object the loop mutates
  gameState,         \* the React state of the run (useState): the run object
                     \* itself (aliased) or the copy togglePause made of it
  tilesCoordinates,  \* the tile window (React state, captured by the loop closure)
  playerState,       \* PlayerController.playerState
  keyState,          \* PlayerController.keyState (left / right held)
  lastKeyTime,       \* PlayerController.lastKeyTime, as ms elapsed since the accepted move
  lastTimeRef,       \* 0 before the first frame, 1 once a frame timestamp is stored
  timers,            \* pending setTimeout callbacks of handleCollision, oldest first
  turnsLeft,         \* non-zero steps Math.random may still draw (bounds the run)
  probe,             \* a direct call of a method on drawn arguments and its result
  gameError,         \* the message shown by ErrorDisplay, or Null
  animationFrameRef, \* TRUE while a requestAnimationFrame(gameLoop) is pending
  loops,             \* the game-loop effect: its instances' isRunning flags, the
                     \* frames requested and animationFrameRef.current's handle
  scaleCache,        \* perspective utilities: cache key -> scale
  pointCache,        \* perspective utilities: cache key -> [x, y]
  cacheSize,         \* perspective utilities: entries added since the last clear
  projected,         \* the last call of a perspective function and its result
  comboSystem,       \* a ComboStreakSystem: its state and the time since lastActionTime
  powerUpSystem      \* a PowerUpSystem: its instances and spawners, and the
                     \* game state object its effects modify

vars == <<gameStateRef, gameState, tilesCoordinates, playerState, keyState,
          lastKeyTime, lastTimeRef, timers, turnsLeft, probe, gameError,
          animationFrameRef, loops, scaleCache, pointCache, cacheSize, projected,
          comboSystem, powerUpSystem>>

perspectiveVars == <<scaleCache, pointCache, cacheSize, projected>>

feelVars == <<comboSystem, powerUpSystem>>

\* null / undefined; a record, so that it compares with any record value.
Null == [null |-> TRUE]

abs(x) == IF x < 0 THEN -x ELSE x

Min2(a, b) == IF a <= b THEN a ELSE b

Max2(a, b) == IF a >= b THEN a ELSE b

\* A lane index as a fixed-point lane position.
Lane(x) == x * 1000

(***************************************************************************)
(* CollisionDetector (src/app/utils/CollisionDetection.ts)                 *)
(***************************************************************************)

DEFAULT_CONFIG ==
  [shipTolerance |-> 400, lookAheadDistance |-> 2, collisionMargin |-> 100,
   enablePredictiveCollision |-> TRUE]

\* Boundaries set by the constructor (maxX 7).
DefaultBoundaries == [minX |-> 0, maxX |-> 7000, minY |-> 0]

NoCollision(shipPosition, shipY) ==
  [hasCollision |-> FALSE, collisionType |-> "none", distance |-> 0,
   position |-> [x |-> shipPosition, y |-> shipY], severity |-> "none"]

getTilesAtPosition(pathTiles, currentYLoop, shipY) ==
  LET targetY == currentYLoop + shipY
  IN  SelectSeq(pathTiles, LAMBDA tile : abs(tile.y - targetY) < 1)

\* findValidTile with the tolerance comparison reversed.
findValidTileWide(config, tiles, shipPosition) ==
  LET hits == {i \in 1..Len(tiles) :
                 abs(Lane(tiles[i].x) - shipPosition) >= config.shipTolerance}
  IN  IF hits = {} THEN Null
      ELSE tiles[CHOOSE i \in hits : \A j \in hits : i <= j]

findValidTile(config, tiles, shipPosition) ==
  LET hits == {i \in 1..Len(tiles) :
                 abs(Lane(tiles[i].x) - shipPosition) <= config.shipTolerance}
  IN  IF hits = {} THEN Null
      ELSE tiles[CHOOSE i \in hits : \A j \in hits : i <= j]

findNearestTile(tiles, shipPosition) ==
  IF Len(tiles) = 0 THEN Null
  ELSE LET d(i) == abs(Lane(tiles[i].x) - shipPosition)
           best == CHOOSE i \in 1..Len(tiles) :
                     /\ \A j \in 1..Len(tiles) : d(i) <= d(j)
                     /\ \A j \in 1..(i - 1) : d(j) > d(i)
       IN  tiles[best]

\* calculateSeverity with the major and minor grades exchanged.
calculateSeverityExchanged(distance) ==
  IF distance = 0 THEN "fatal"
  ELSE IF distance <= 200 THEN "minor"
  ELSE IF distance <= 500 THEN "major"
  ELSE "none"

\* calculateSeverity testing the wider grade first: minor is never returned.
calculateSeverityMajorFirst(distance) ==
  IF distance = 0 THEN "fatal"
  ELSE IF distance <= 500 THEN "major"
  ELSE IF distance <= 200 THEN "minor"
  ELSE "none"

calculateSeverity(distance) ==
  IF distance = 0 THEN "fatal"
  ELSE IF distance <= 200 THEN "major"
  ELSE IF distance <= 500 THEN "minor"
  ELSE "none"

\* The result of one iteration of the look-ahead loop (NoCollision when the
\* iteration falls through to the next one).
predictiveStep(config, shipPosition, shipY, pathTiles, currentYLoop, ahead) ==
  LET futureY == shipY + ahead
      futureTiles == getTilesAtPosition(pathTiles, currentYLoop, futureY)
  IN  IF Len(futureTiles) = 0
      THEN [hasCollision |-> TRUE, collisionType |-> "off-track",
            distance |-> Lane(ahead),
            position |-> [x |-> shipPosition, y |-> futureY], severity |-> "minor"]
      ELSE IF findValidTile(config, futureTiles, shipPosition) = Null
      THEN LET nearestTile == findNearestTile(futureTiles, shipPosition)
           IN  [hasCollision |-> TRUE, collisionType |-> "off-track",
                distance |-> Lane(ahead) + abs(Lane(nearestTile.x) - shipPosition),
                position |-> [x |-> Lane(nearestTile.x), y |-> nearestTile.y],
                severity |-> "minor"]
      ELSE NoCollision(shipPosition, shipY)

\* checkPredictiveCollision looking one row less far ahead.
checkPredictiveCollisionShort(config, shipPosition, shipY, pathTiles, currentYLoop) ==
  LET step(ahead) ==
        predictiveStep(config, shipPosition, shipY, pathTiles, currentYLoop, ahead)
      failing == {a \in 1..(config.lookAheadDistance - 1) : step(a).hasCollision}
  IN  IF failing = {} THEN NoCollision(shipPosition, shipY)
      ELSE step(CHOOSE a \in failing : \A b \in failing : a <= b)

checkPredictiveCollision(config, shipPosition, shipY, pathTiles, currentYLoop) ==
  LET step(ahead) ==
        predictiveStep(config, shipPosition, shipY, pathTiles, currentYLoop, ahead)
      failing == {a \in 1..config.lookAheadDistance : step(a).hasCollision}
  IN  IF failing = {} THEN NoCollision(shipPosition, shipY)
      ELSE step(CHOOSE a \in failing : \A b \in failing : a <= b)

\* noTilesAtRow with the startup threshold one tile lower.
noTilesAtRowStrict(shipPosition, shipY, pathTiles, currentYLoop) ==
  LET nearbyTiles ==
        SelectSeq(pathTiles, LAMBDA tile : abs(tile.y - (currentYLoop + shipY)) <= 2)
  IN  IF Len(nearbyTiles) = 0
      THEN [hasCollision |-> TRUE, collisionType |-> "off-track", distance |-> 0,
            position |-> [x |-> shipPosition, y |-> shipY],
            severity |-> IF Len(pathTiles) < 4 THEN "minor" ELSE "major"]
      ELSE NoCollision(shipPosition, shipY)

\* The branch of checkPathCollision taken when no tile lies at the ship's row.
noTilesAtRow(shipPosition, shipY, pathTiles, currentYLoop) ==
  LET nearbyTiles ==
        SelectSeq(pathTiles, LAMBDA tile : abs(tile.y - (currentYLoop + shipY)) <= 2)
  IN  IF Len(nearbyTiles) = 0
      THEN [hasCollision |-> TRUE, collisionType |-> "off-track", distance |-> 0,
            position |-> [x |-> shipPosition, y |-> shipY],
            severity |-> IF Len(pathTiles) < 5 THEN "minor" ELSE "major"]
      ELSE NoCollision(shipPosition, shipY)

checkPathCollision(config, shipPosition, shipY, pathTiles, currentYLoop) ==
  LET currentTiles == getTilesAtPosition(pathTiles, currentYLoop, shipY)
  IN  IF Len(currentTiles) = 0
      THEN noTilesAtRow(shipPosition, shipY, pathTiles, currentYLoop)
      ELSE IF findValidTile(config, currentTiles, shipPosition) = Null
      THEN LET nearestTile == findNearestTile(currentTiles, shipPosition)
               distance == abs(Lane(nearestTile.x) - shipPosition)
           IN  [hasCollision |-> TRUE, collisionType |-> "off-track",
                distance |-> distance,
                position |-> [x |-> Lane(nearestTile.x), y |-> nearestTile.y],
                severity |-> calculateSeverity(distance)]
      ELSE LET predictiveResult ==
                 checkPredictiveCollision(config, shipPosition, shipY, pathTiles,
                                          currentYLoop)
           IN  IF config.enablePredictiveCollision /\ predictiveResult.hasCollision
               THEN predictiveResult
               ELSE NoCollision(shipPosition, shipY)

\* maxY is Number.MAX_SAFE_INTEGER: shipY > maxY never holds.
checkBoundaryCollision(boundaries, shipPosition, shipY) ==
  IF shipPosition < boundaries.minX \/ shipPosition >= boundaries.maxX
  THEN [hasCollision |-> TRUE, collisionType |-> "boundary",
        distance |-> Min2(abs(shipPosition - boundaries.minX),
                          abs(shipPosition - boundaries.maxX)),
        position |-> [x |-> shipPosition, y |-> shipY], severity |-> "major"]
  ELSE IF shipY < boundaries.minY
  THEN [hasCollision |-> TRUE, collisionType |-> "boundary",
        distance |-> abs(shipY - boundaries.minY),
        position |-> [x |-> shipPosition, y |-> shipY], severity |-> "major"]
  ELSE NoCollision(shipPosition, shipY)

\* checkAllCollisions running the path check before the boundary check.
checkAllCollisionsPathFirst(config, boundaries, shipPosition, shipY, pathTiles, currentYLoop) ==
  LET boundaryResult == checkBoundaryCollision(boundaries, shipPosition, shipY)
      pathResult == checkPathCollision(config, shipPosition, shipY, pathTiles,
                                       currentYLoop)
  IN  IF pathResult.hasCollision THEN pathResult
      ELSE IF boundaryResult.hasCollision THEN boundaryResult
      ELSE NoCollision(shipPosition, shipY)

checkAllCollisions(config, boundaries, shipPosition, shipY, pathTiles, currentYLoop) ==
  LET boundaryResult == checkBoundaryCollision(boundaries, shipPosition, shipY)
      pathResult == checkPathCollision(config, shipPosition, shipY, pathTiles,
                                       currentYLoop)
  IN  IF boundaryResult.hasCollision THEN boundaryResult
      ELSE IF pathResult.hasCollision THEN pathResult
      ELSE NoCollision(shipPosition, shipY)

(***************************************************************************)
(* PlayerController (src/unnamed/part_002)                                 *)
(***************************************************************************)

keyRepeatDelay == 150

maxMoveDistance == 300

\* distance * smoothingFactor (0.15), truncated to the fixed-point grid.
smooth(distance) ==
  IF distance >= 0 THEN (distance * 15) \div 100 ELSE -(((-distance) * 15) \div 100)

\* canMoveLeft without the repeat delay.
canMoveLeftAtOnce(last) == TRUE

canMoveLeft(last) == last = Null \/ last.age >= keyRepeatDelay

canMoveRight(targetPosition, last, maxLanes) ==
  /\ targetPosition < Lane(maxLanes - 1)
  /\ (last = Null \/ last.age >= keyRepeatDelay)

\* processInput: the new targetPosition, isMoving and lastKeyTime.
processInput(ps, ks, lkt, maxLanes) ==
  LET goLeft == ks.left /\ canMoveLeft(lkt.left)
      t1 == IF goLeft THEN Max2(0, ps.targetPosition - 1000) ELSE ps.targetPosition
      goRight == ks.right /\ canMoveRight(t1, lkt.right, maxLanes)
      t2 == IF goRight THEN Min2(Lane(maxLanes - 1), t1 + 1000) ELSE t1
  IN  [ps |-> [ps EXCEPT !.targetPosition = t2,
                         !.isMoving = abs(ps.position - t2) > 10],
       lkt |-> [left |-> IF goLeft THEN [age |-> 0] ELSE lkt.left,
                right |-> IF goRight THEN [age |-> 0] ELSE lkt.right]]

\* A velocity is kept as the quotient the code computes, movement / deltaTime
\* (thousandths of a lane per ms); a zero deltaTime makes it Infinity or NaN.
zeroVelocity == [num |-> 0, den |-> 1]

velocityOf(movement, deltaTime) == [num |-> movement, den |-> deltaTime]

updateMovement(ps, deltaTime) ==
  IF ~ps.isMoving THEN ps
  ELSE LET distance == ps.targetPosition - ps.position
           movement == Max2(-maxMoveDistance, Min2(maxMoveDistance, smooth(distance)))
       IN  IF abs(distance) < 10
           THEN [ps EXCEPT !.position = ps.targetPosition, !.velocity = zeroVelocity,
                           !.isMoving = FALSE]
           ELSE [ps EXCEPT !.position = ps.position + movement,
                           !.velocity = velocityOf(movement, deltaTime)]

clampPosition(ps, maxLanes) ==
  [ps EXCEPT !.position = Max2(0, Min2(Lane(maxLanes - 1), ps.position)),
             !.targetPosition = Max2(0, Min2(Lane(maxLanes - 1), ps.targetPosition))]

\* PlayerController.update (isActive is true once the Game has mounted).
update(ps, ks, lkt, deltaTime, maxLanes) ==
  LET inp == processInput(ps, ks, lkt, maxLanes)
  IN  [ps |-> clampPosition(updateMovement(inp.ps, deltaTime), maxLanes),
       lkt |-> inp.lkt]

\* setPosition moving the ship and leaving its target where it was.
setPositionOnly(ps, position, maxLanes) ==
  LET clampedPosition == Max2(0, Min2(Lane(maxLanes - 1), position))
  IN  [ps EXCEPT !.position = clampedPosition, !.velocity = zeroVelocity,
                 !.isMoving = FALSE]

setPosition(ps, position, maxLanes) ==
  LET clampedPosition == Max2(0, Min2(Lane(maxLanes - 1), position))
  IN  [ps EXCEPT !.position = clampedPosition, !.targetPosition = clampedPosition,
                 !.velocity = zeroVelocity, !.isMoving = FALSE]

(***************************************************************************)
(* Game component (src/unnamed/part_003)                                   *)
(***************************************************************************)

NB_COLUMNS == 7

SCROLL_SPEED == 240

MIN_TILES == 16

MAX_TILES == 24

DEFAULT_CANVAS_HEIGHT == 400

\* TILE_SPACING_Y (0.15) * canvasSize.height, in thousandths of a pixel.
spacingY == 150 * DEFAULT_CANVAS_HEIGHT

\* Boundaries the Game installs on its detector: maxX = NB_COLUMNS - 1.
GameBoundaries == [minX |-> 0, maxX |-> Lane(NB_COLUMNS - 1), minY |-> 0]

centreLane == NB_COLUMNS \div 2

\* Bounds of the model.
MaxYLoop == 6

MaxTurns == 2

MaxTimers == 2

MaxRunYLoop == 3

\* Frame-to-frame intervals in ms.
DeltaTimes == {250}

\* Outcomes of Math.floor(Math.random() * 3) - 1.
RandomSteps == {-1, 0, 1}

\* The sequences of n random steps of which at most k are not 0.
RECURSIVE StepSeqs(_, _)
StepSeqs(n, k) ==
  IF n = 0 THEN {<<>>}
  ELSE {Append(s, 0) : s \in StepSeqs(n - 1, k)}
       \cup (IF k = 0 THEN {}
             ELSE {Append(p[1], p[2]) :
                     p \in StepSeqs(n - 1, k - 1) \X (RandomSteps \ {0})})

Turns(steps) == Cardinality({i \in 1..Len(steps) : steps[i] # 0})

\* clampLane letting a lane go one past either edge.
clampLaneLoose(x) == Max2(-1, Min2(NB_COLUMNS, x))

clampLane(x) == Max2(0, Min2(NB_COLUMNS - 1, x))

\* The tiles pushed by a generation loop that starts at lane lastX and row
\* lastY and draws the random steps in order.
RECURSIVE walk(_, _, _)
walk(lastX, lastY, steps) ==
  IF steps = <<>> THEN <<>>
  ELSE LET x == clampLane(lastX + Head(steps))
       IN  <<[x |-> x, y |-> lastY]>> \o walk(x, lastY + 1, Tail(steps))

\* generateInitialTiles with a straight run of two tiles.
generateInitialTilesShortRun(currentYLoop, steps) ==
  LET lastX == centreLane
      lastY == currentYLoop + 1
  IN  <<[x |-> lastX, y |-> lastY], [x |-> lastX, y |-> lastY + 1]>>
        \o walk(lastX, lastY + 2, steps)

\* generateInitialTiles: three straight tiles, then MIN_TILES - 3 random ones.
generateInitialTiles(currentYLoop, steps) ==
  LET lastX == centreLane
      lastY == currentYLoop + 1
  IN  <<[x |-> lastX, y |-> lastY], [x |-> lastX, y |-> lastY + 1],
        [x |-> lastX, y |-> lastY + 2]>> \o walk(lastX, lastY + 3, steps)

\* validTilesOf dropping the tiles of the current row as well.
validTilesOfStrict(prevTiles, currentYLoop) ==
  SelectSeq(prevTiles, LAMBDA tile : tile.y > currentYLoop)

validTilesOf(prevTiles, currentYLoop) ==
  SelectSeq(prevTiles, LAMBDA tile : tile.y >= currentYLoop)

tilesNeededOf(prevTiles, currentYLoop) ==
  MIN_TILES - Len(validTilesOf(prevTiles, currentYLoop))

\* generateTilesCoordinates counting the tiles it needs on the untrimmed window.
generateTilesCoordinatesUntrimmed(prevTiles, currentYLoop, steps) ==
  LET validTiles == validTilesOf(prevTiles, currentYLoop)
      tilesNeeded == MIN_TILES - Len(prevTiles)
      lastX == IF Len(validTiles) > 0 THEN validTiles[Len(validTiles)].x
               ELSE centreLane
      lastY == currentYLoop + 1
  IN  IF tilesNeeded <= 0 THEN prevTiles
      ELSE validTiles \o walk(lastX, lastY, steps)

\* generateTilesCoordinates appending the new tiles to the window it was given.
generateTilesCoordinatesKeepsRear(prevTiles, currentYLoop, steps) ==
  LET validTiles == validTilesOf(prevTiles, currentYLoop)
      tilesNeeded == MIN_TILES - Len(validTiles)
      lastX == IF Len(validTiles) > 0 THEN validTiles[Len(validTiles)].x
               ELSE centreLane
      lastY == currentYLoop + 1
  IN  IF tilesNeeded <= 0 THEN prevTiles
      ELSE prevTiles \o walk(lastX, lastY, steps)

\* The updater generateTilesCoordinates hands to setTilesCoordinates.
generateTilesCoordinates(prevTiles, currentYLoop, steps) ==
  LET validTiles == validTilesOf(prevTiles, currentYLoop)
      tilesNeeded == MIN_TILES - Len(validTiles)
      lastX == IF Len(validTiles) > 0 THEN validTiles[Len(validTiles)].x
               ELSE centreLane
      lastY == currentYLoop + 1
  IN  IF tilesNeeded <= 0 THEN prevTiles
      ELSE validTiles \o walk(lastX, lastY, steps)

InitialState ==
  [currentOffsetY |-> 0, currentYLoop |-> 0, shipPosition |-> Lane(centreLane),
   speed |-> SCROLL_SPEED, score |-> 0, lives |-> 3, gameStatus |-> "playing",
   lastCollision |-> Null]

\* handleCollision ending the run only once lives is below 0.
handleCollisionLate(gs, collision) ==
  LET g0 == [gs EXCEPT !.lastCollision = collision]
  IN  CASE collision.severity = "fatal" ->
             [gs |-> [g0 EXCEPT !.lives = 0, !.gameStatus = "gameOver"],
              timer |-> FALSE]
        [] collision.severity = "major" ->
             [gs |-> [g0 EXCEPT !.lives = gs.lives - 1,
                                !.gameStatus = IF gs.lives - 1 < 0 THEN "gameOver"
                                               ELSE gs.gameStatus],
              timer |-> gs.lives - 1 >= 0]
        [] collision.severity = "minor" ->
             [gs |-> [g0 EXCEPT !.score = Max2(0, gs.score - 50)], timer |-> FALSE]
        [] OTHER -> [gs |-> g0, timer |-> FALSE]

\* handleCollision taking the minor penalty without the floor at 0.
handleCollisionNoFloor(gs, collision) ==
  LET g0 == [gs EXCEPT !.lastCollision = collision]
  IN  CASE collision.severity = "fatal" ->
             [gs |-> [g0 EXCEPT !.lives = 0, !.gameStatus = "gameOver"],
              timer |-> FALSE]
        [] collision.severity = "major" ->
             [gs |-> [g0 EXCEPT !.lives = gs.lives - 1,
                                !.gameStatus = IF gs.lives - 1 <= 0 THEN "gameOver"
                                               ELSE gs.gameStatus],
              timer |-> gs.lives - 1 > 0]
        [] collision.severity = "minor" ->
             [gs |-> [g0 EXCEPT !.score = gs.score - 50], timer |-> FALSE]
        [] OTHER -> [gs |-> g0, timer |-> FALSE]

\* handleCollision on the run object gs: the object after the switch and
\* whether a recentring timer was scheduled.
handleCollision(gs, collision) ==
  LET g0 == [gs EXCEPT !.lastCollision = collision]
  IN  CASE collision.severity = "fatal" ->
             [gs |-> [g0 EXCEPT !.lives = 0, !.gameStatus = "gameOver"],
              timer |-> FALSE]
        [] collision.severity = "major" ->
             [gs |-> [g0 EXCEPT !.lives = gs.lives - 1,
                                !.gameStatus = IF gs.lives - 1 <= 0 THEN "gameOver"
                                               ELSE gs.gameStatus],
              timer |-> gs.lives - 1 > 0]
        [] collision.severity = "minor" ->
             [gs |-> [g0 EXCEPT !.score = Max2(0, gs.score - 50)], timer |-> FALSE]
        [] OTHER -> [gs |-> g0, timer |-> FALSE]

\* speedFor without the cap at twice the base speed.
speedForUncapped(score) ==
  SCROLL_SPEED + (score \div 500) * 20

speedFor(score) ==
  Min2(SCROLL_SPEED + (score \div 500) * 20, SCROLL_SPEED * 2)

(***************************************************************************)
(* ComboStreakSystem (src/unnamed/part_000)                                *)
(*                                                                         *)
(* Combo values and multipliers are integers in thousandths; times and     *)
(* durations are milliseconds.                                             *)
(***************************************************************************)

ComboConfig ==
  [maxCombo |-> 100000, decayRate |-> 500, timeWindow |-> 2000,
   multiplierCap |-> 5000]

\* initializeStreakRewards; a reward without duration has duration 0 once it
\* is active (reward.duration || 0).
streakRewards ==
  <<[name |-> "Momentum Builder", threshold |-> 5, effect |-> "score_multiplier",
     value |-> 1250, duration |-> 10000],
    [name |-> "Speed Demon", threshold |-> 10, effect |-> "speed_boost",
     value |-> 1150, duration |-> 8000],
    [name |-> "Combo Master", threshold |-> 20, effect |-> "score_multiplier",
     value |-> 1500, duration |-> 12000],
    [name |-> "Untouchable", threshold |-> 35, effect |-> "invulnerability",
     value |-> 1000, duration |-> 3000],
    [name |-> "Legend", threshold |-> 50, effect |-> "point_bonus",
     value |-> 2000000, duration |-> 0],
    [name |-> "Perfectionist", threshold |-> 75, effect |-> "score_multiplier",
     value |-> 2000, duration |-> 15000],
    [name |-> "Godlike", threshold |-> 100, effect |-> "point_bonus",
     value |-> 5000000, duration |-> 0]>>

\* Date.now() - lastActionTime beyond the time window: every such value
\* behaves alike, so one stands for all (lastActionTime starts at 0).
Lapsed == ComboConfig.timeWindow + 1

NewComboStreakSystem ==
  [currentCombo |-> 0, maxComboReached |-> 0, currentStreak |-> 0,
   longestStreak |-> 0, sinceLastAction |-> Lapsed, totalActions |-> 0,
   scoreMultiplier |-> 1000, activeRewards |-> <<>>, recentActions |-> <<>>]

RECURSIVE rewardFactor(_, _)
\* The loop of updateScoreMultiplier over the active rewards, from reward i.
rewardFactor(rewards, i) ==
  IF i > Len(rewards) THEN 1000
  ELSE LET rest == rewardFactor(rewards, i + 1)
       IN  IF rewards[i].effect = "score_multiplier"
           THEN (rewards[i].value * rest) \div 1000
           ELSE rest

updateScoreMultiplier(cs) ==
  LET baseMultiplier ==
        1000 + (cs.currentCombo * (ComboConfig.multiplierCap - 1000))
                 \div ComboConfig.maxCombo
      totalMultiplier == (baseMultiplier * rewardFactor(cs.activeRewards, 1)) \div 1000
  IN  [cs EXCEPT !.scoreMultiplier = Min2(ComboConfig.multiplierCap * 2, totalMultiplier)]

comboBroken(cs) ==
  IF cs.currentCombo > 0
  THEN [cs EXCEPT !.currentCombo = 0, !.currentStreak = 0, !.scoreMultiplier = 1000,
                  !.activeRewards = SelectSeq(@, LAMBDA reward : reward.duration = 0)]
  ELSE cs

activateStreakReward(cs, reward) ==
  LET kept == SelectSeq(cs.activeRewards,
                        LAMBDA r : r.effect # reward.effect \/ r.name = reward.name)
      c1 == [cs EXCEPT !.activeRewards = Append(kept, reward)]
  IN  IF reward.effect = "score_multiplier" THEN updateScoreMultiplier(c1) ELSE c1

checkStreakMilestones(cs) ==
  LET reached == {i \in 1..Len(streakRewards) :
                    streakRewards[i].threshold = cs.currentStreak}
  IN  IF reached = {} THEN cs
      ELSE activateStreakReward(
             cs, streakRewards[CHOOSE i \in reached : \A j \in reached : i <= j])

\* addAction for an action of the given type and value, made when
\* Date.now() - lastActionTime is cs.sinceLastAction.
addAction(cs, type, value) ==
  LET c1 == IF cs.sinceLastAction <= ComboConfig.timeWindow \/ cs.currentCombo = 0
            THEN [cs EXCEPT !.currentCombo = Min2(ComboConfig.maxCombo, @ + value),
                            !.currentStreak = @ + 1,
                            !.totalActions = @ + 1]
            ELSE [comboBroken(cs) EXCEPT !.currentCombo = value,
                                         !.currentStreak = 1,
                                         !.totalActions = cs.totalActions + 1]
      c2 == [c1 EXCEPT !.sinceLastAction = 0,
                       !.maxComboReached = Max2(@, c1.currentCombo),
                       !.longestStreak = Max2(@, c1.currentStreak),
                       !.recentActions = IF Len(@) + 1 > 10 THEN Tail(Append(@, type))
                                         ELSE Append(@, type)]
  IN  checkStreakMilestones(updateScoreMultiplier(c2))

RECURSIVE updateActiveRewards(_, _)
\* updateActiveRewards: a timed reward loses deltaTime and is dropped once
\* nothing is left; a reward of duration 0 stays.
updateActiveRewards(rewards, deltaTime) ==
  IF rewards = <<>> THEN <<>>
  ELSE LET reward == Head(rewards)
           rest == updateActiveRewards(Tail(rewards), deltaTime)
       IN  IF reward.duration > 0
           THEN IF reward.duration - deltaTime > 0
                THEN <<[reward EXCEPT !.duration = @ - deltaTime]>> \o rest
                ELSE rest
           ELSE <<reward>> \o rest

\* update(deltaTime), the clock having advanced by deltaTime since the call
\* before it.
comboUpdate(cs, deltaTime) ==
  LET since == Min2(Lapsed, cs.sinceLastAction + deltaTime)
      c0 == [cs EXCEPT !.sinceLastAction = since]
      c1 == IF c0.currentCombo > 0 /\ since > ComboConfig.timeWindow
            THEN LET decayAmount == (ComboConfig.decayRate * deltaTime) \div 1000
                     decayed == [c0 EXCEPT !.currentCombo = Max2(0, @ - decayAmount)]
                 IN  IF decayed.currentCombo = 0 THEN comboBroken(decayed)
                     ELSE updateScoreMultiplier(decayed)
            ELSE c0
  IN  [c1 EXCEPT !.activeRewards = updateActiveRewards(@, deltaTime)]


(***************************************************************************)
(* PowerUpSystem (src/unnamed/part_000)                                    *)
(***************************************************************************)

PowerUpConfig ==
  [spawnInterval |-> 30000, maxActiveSpawners |-> 5, despawnTime |-> 30000]

\* The effects of initializeDefaultEffects that are modelled: one that does
\* not stack, the stackable timed one and the instant one.
PowerUpEffects ==
  [speed_boost |-> [duration |-> 5000, stackable |-> FALSE, maxStacks |-> 1],
   score_multiplier |-> [duration |-> 10000, stackable |-> TRUE, maxStacks |-> 3],
   instant_points |-> [duration |-> 0, stackable |-> TRUE, maxStacks |-> 999]]

EffectIds == DOMAIN PowerUpEffects

\* The game state object handed to update, before any power-up.
HostGameState == [scoreMultiplier |-> 1000, score |-> 0, speedMultiplier |-> 1000]

\* this.gameState is undefined until the first update; lastSpawnTime is 0, so
\* the first update is a spawn interval or more after it. activations counts
\* the activatePowerUp calls made, to bound the run.
NewPowerUpSystem ==
  [activeInstances |-> <<>>, spawners |-> <<>>,
   sinceLastSpawn |-> PowerUpConfig.spawnInterval, gameState |-> Null,
   activations |-> 0]

\* effect.onActivate(gameState, powerUp): the game state and the instance
\* after the call.
onActivate(gs, instance) ==
  CASE instance.effectId = "speed_boost" ->
         [gs |-> [gs EXCEPT !.speedMultiplier = (@ * 1500) \div 1000],
          instance |-> [instance EXCEPT !.data = gs.speedMultiplier]]
    [] instance.effectId = "score_multiplier" ->
         [gs |-> [gs EXCEPT !.scoreMultiplier = @ * 2], instance |-> instance]
    [] instance.effectId = "instant_points" ->
         [gs |-> [gs EXCEPT !.score = @ + 500 * instance.stacks],
          instance |-> [instance EXCEPT !.data = 500 * instance.stacks]]

\* effect.onDeactivate(gameState, powerUp).
onDeactivate(gs, instance) ==
  CASE instance.effectId = "speed_boost" ->
         [gs EXCEPT !.speedMultiplier = IF instance.data = 0 THEN 1000
                                        ELSE instance.data]
    [] instance.effectId = "score_multiplier" ->
         [gs EXCEPT !.scoreMultiplier = @ \div 2]
    [] instance.effectId = "instant_points" -> gs

existingInstance(ps, effectId) ==
  LET found == {i \in 1..Len(ps.activeInstances) :
                  ps.activeInstances[i].effectId = effectId}
  IN  IF found = {} THEN 0 ELSE CHOOSE i \in found : \A j \in found : i <= j

\* activatePowerUp(effectId) once update has set this.gameState.
activatePowerUp(ps, effectId) ==
  LET effect == PowerUpEffects[effectId]
      e == existingInstance(ps, effectId)
      counted == [ps EXCEPT !.activations = @ + 1]
  IN  IF e # 0 /\ effect.stackable /\ ps.activeInstances[e].stacks < effect.maxStacks
      THEN LET stacked ==
                 [ps.activeInstances[e] EXCEPT
                    !.stacks = @ + 1,
                    !.timeRemaining = Max2(@, effect.duration)]
               a == onActivate(ps.gameState, stacked)
           IN  [counted EXCEPT !.activeInstances[e] = a.instance, !.gameState = a.gs]
      ELSE IF e = 0 \/ effect.stackable
      THEN LET instance == [effectId |-> effectId, timeRemaining |-> effect.duration,
                            stacks |-> 1, data |-> 0]
               a == onActivate(ps.gameState, instance)
           IN  [counted EXCEPT !.activeInstances = Append(@, a.instance),
                               !.gameState = a.gs]
      ELSE counted

RECURSIVE updateActiveInstances(_, _, _)
\* updateActiveInstances over the instances still to visit: the instances
\* kept and the game state after the onDeactivate calls of the expired ones.
updateActiveInstances(instances, gs, deltaTime) ==
  IF instances = <<>> THEN [activeInstances |-> <<>>, gameState |-> gs]
  ELSE LET instance == Head(instances)
           left == instance.timeRemaining - deltaTime
       IN  IF instance.timeRemaining > 0 /\ left <= 0
           THEN updateActiveInstances(Tail(instances), onDeactivate(gs, instance),
                                      deltaTime)
           ELSE LET rest == updateActiveInstances(Tail(instances), gs, deltaTime)
                    kept == IF instance.timeRemaining > 0
                            THEN [instance EXCEPT !.timeRemaining = left]
                            ELSE instance
                IN  [rest EXCEPT !.activeInstances = <<kept>> \o @]

\* updateSpawners, the clock having advanced by deltaTime: collected and
\* expired spawners go.
updateSpawners(spawners, deltaTime) ==
  LET aged == [i \in 1..Len(spawners) |->
                 [spawners[i] EXCEPT !.age = @ + deltaTime]]
  IN  SelectSeq(aged, LAMBDA spawner :
                  ~spawner.collected /\ spawner.age <= PowerUpConfig.despawnTime)

\* update(deltaTime, gameState) when selectRandomEffect draws effectId.
powerUpUpdate(ps, gs, deltaTime, effectId) ==
  LET u == updateActiveInstances(ps.activeInstances, gs, deltaTime)
      remaining == updateSpawners(ps.spawners, deltaTime)
      since == ps.sinceLastSpawn + deltaTime
      spawns == /\ since >= PowerUpConfig.spawnInterval
                /\ Len(remaining) < PowerUpConfig.maxActiveSpawners
  IN  [ps EXCEPT
         !.activeInstances = u.activeInstances,
         !.gameState = u.gameState,
         !.spawners = IF spawns
                      THEN Append(remaining, [effectId |-> effectId,
                                              collected |-> FALSE, age |-> 0])
                      ELSE remaining,
         !.sinceLastSpawn = IF spawns THEN 0
                            ELSE Min2(since, PowerUpConfig.spawnInterval)]

RECURSIVE collected(_, _, _)
\* checkCollisions for a player within the collection radius of the
\* spawners numbered in reach, from spawner i on.
collected(ps, reach, i) ==
  IF i > Len(ps.spawners) THEN ps
  ELSE IF i \in reach /\ ~ps.spawners[i].collected
  THEN collected(activatePowerUp([ps EXCEPT !.spawners[i].collected = TRUE],
                                 ps.spawners[i].effectId),
                 reach, i + 1)
  ELSE collected(ps, reach, i + 1)

\* deactivatePowerUp for the id of the instance at index.
deactivatePowerUp(ps, index) ==
  [ps EXCEPT
     !.gameState = onDeactivate(@, ps.activeInstances[index]),
     !.activeInstances = SubSeq(@, 1, index - 1) \o SubSeq(@, index + 1, Len(@))]

RECURSIVE deactivatedAll(_, _)
deactivatedAll(instances, gs) ==
  IF instances = <<>> THEN gs
  ELSE deactivatedAll(Tail(instances), onDeactivate(gs, Head(instances)))

\* clear().
powerUpClear(ps) ==
  [ps EXCEPT !.gameState = deactivatedAll(ps.activeInstances, @),
             !.activeInstances = <<>>, !.spawners = <<>>]

(***************************************************************************)
(* The effect that owns the game loop                                      *)
(***************************************************************************)

\* No loop yet: no effect run has passed the context test.
NoLoop == [inst |-> 0, running |-> {}, pending |-> {}, ref |-> 0]

\* A handle whose callback has been run: it names no pending request.
Fired == -1

\* Handles and instance numbers are fresh: never those of a request still
\* pending or of an instance still running.
freshHandle(l) ==
  CHOOSE h \in 1..(Cardinality(l.pending) + 1) :
    /\ \A r \in l.pending : r.handle # h
    /\ \A g \in 1..(h - 1) : \E r \in l.pending : r.handle = g

inUse(l) == l.running \cup {r.inst : r \in l.pending}

freshInstance(l) ==
  CHOOSE i \in 1..(Cardinality(inUse(l)) + 1) :
    /\ i \notin inUse(l)
    /\ \A j \in 1..(i - 1) : j \in inUse(l)

\* animationFrameRef.current = requestAnimationFrame(gameLoop), gameLoop being
\* the closure of instance i.
requestAnimationFrame(l, i) ==
  [l EXCEPT !.pending = @ \cup {[handle |-> freshHandle(l), inst |-> i]},
            !.ref = freshHandle(l)]

cancelAnimationFrame(l, handle) ==
  [l EXCEPT !.pending = {r \in @ : r.handle # handle}]

\* The browser taking request r off its list to run the callback.
callback(l, r) ==
  [l EXCEPT !.pending = @ \ {r}, !.ref = IF @ = r.handle THEN Fired ELSE @]

\* The requests whose callback gets past `if (!isRunning) return`.
runnable(l) == {r \in l.pending : r.inst \in l.running}

\* The effect body once context is set: a new closure with isRunning true
\* requests its first frame.
startLoop(l) ==
  requestAnimationFrame([l EXCEPT !.inst = freshInstance(l),
                                  !.running = @ \cup {freshInstance(l)}],
                        freshInstance(l))

\* An effect that returns no cleanup function.
cleanupMissing(l) == l

\* The cleanup function of the latest effect run.
cleanup(l) ==
  LET stopped == [l EXCEPT !.running = @ \ {l.inst}, !.inst = 0]
  IN  IF l.ref # 0
      THEN [cancelAnimationFrame(stopped, l.ref) EXCEPT !.ref = 0]
      ELSE stopped

\* React after the handler returned: when a dependency of the effect has
\* changed it runs the cleanup, then the effect again.
committed(l, changed) == IF changed THEN startLoop(cleanup(l)) ELSE l

(***************************************************************************)
(* One animation frame (gameLoop)                                          *)
(***************************************************************************)

\* deltaTime of the frame: 0 on the first frame, when lastTimeRef is 0.
frameDelta(dt) == IF lastTimeRef > 0 THEN dt ELSE 0

\* Date.now() - lastKeyTime[k] after dt more ms, capped at keyRepeatDelay.
aged(lkt, dt) ==
  [k \in DOMAIN lkt |->
     IF lkt[k] = Null THEN Null
     ELSE [age |-> Min2(keyRepeatDelay, lkt[k].age + dt)]]

\* playerControllerRef.current.update(deltaTime, NB_COLUMNS) of the frame.
moved(dt) ==
  update(playerState, keyState, aged(lastKeyTime, dt), frameDelta(dt), NB_COLUMNS)

newOffsetY(dt) == gameStateRef.currentOffsetY + gameStateRef.speed * frameDelta(dt)

crossed(dt) == newOffsetY(dt) >= spacingY

loopY(dt) ==
  IF crossed(dt) THEN gameStateRef.currentYLoop + 1 ELSE gameStateRef.currentYLoop

\* The collision result of the frame: the detector reads the tile window
\* captured by the loop closure, i.e. the window as last rendered.
detected(dt) ==
  IF Len(tilesCoordinates) >= 3
  THEN checkAllCollisions(DEFAULT_CONFIG, GameBoundaries, moved(dt).ps.position, 0,
                          tilesCoordinates, loopY(dt))
  ELSE NoCollision(moved(dt).ps.position, 0)

\* The steps the frame's tile generation may draw.
frameSteps(dt) ==
  IF crossed(dt) /\ tilesNeededOf(tilesCoordinates, loopY(dt)) > 0
  THEN StepSeqs(tilesNeededOf(tilesCoordinates, loopY(dt)), turnsLeft)
  ELSE {<<>>}

\* The frame while the status is playing, with collisionResult the value the
\* collision check returned.
playingFrame(dt, steps, collisionResult) ==
  LET m == moved(dt)
      g1 == [gameStateRef EXCEPT
               !.shipPosition = m.ps.position,
               !.currentYLoop = loopY(dt),
               !.currentOffsetY = IF crossed(dt) THEN newOffsetY(dt) - spacingY
                                  ELSE newOffsetY(dt),
               !.score = IF crossed(dt) THEN @ + 10 ELSE @]
      h == IF collisionResult.hasCollision /\ collisionResult.severity # "none"
           THEN handleCollision(g1, collisionResult)
           ELSE [gs |-> [g1 EXCEPT !.lastCollision = Null], timer |-> FALSE]
  IN  /\ gameStateRef' = [h.gs EXCEPT !.speed = speedFor(h.gs.score)]
      /\ playerState' = m.ps
      /\ lastKeyTime' = m.lkt
      /\ tilesCoordinates' =
           IF crossed(dt)
           THEN generateTilesCoordinates(tilesCoordinates, loopY(dt), steps)
           ELSE tilesCoordinates
      /\ turnsLeft' = turnsLeft - Turns(steps)
      /\ timers' = IF h.timer THEN Append(timers, [stale |-> FALSE, status |-> "live"])
                   ELSE timers

\* The frame while paused or over: only the clocks move.
idleFrame(dt) ==
  /\ lastKeyTime' = aged(lastKeyTime, dt)
  /\ UNCHANGED <<gameStateRef, playerState, tilesCoordinates, turnsLeft, timers>>

\* One frame. The refresh of the React state is guarded by a comparison of
\* Math.floor(currentTime / 100) with Math.floor(lastTimeRef.current / 100),
\* made after lastTimeRef.current was set to currentTime: it never holds, so
\* the frame leaves gameState alone.
gameLoop(dt, steps, collisionResult) ==
  /\ animationFrameRef
  /\ lastTimeRef' = 1
  /\ IF gameStateRef.gameStatus = "playing"
     THEN playingFrame(dt, steps, collisionResult)
     ELSE idleFrame(dt)
  /\ animationFrameRef' = TRUE
  /\ \E r \in runnable(loops) :
       loops' = committed(requestAnimationFrame(callback(loops, r), r.inst),
                          tilesCoordinates' # tilesCoordinates)
  /\ UNCHANGED <<gameState, keyState, probe, gameError, perspectiveVars, feelVars>>

\* Where a frame may throw: in the first statement of the playing branch, in
\* context.clearRect after the update, or inside the render block.
ThrowPoints == {"update", "clear", "render"}

\* A frame in which an exception is thrown at the given point. The render
\* block has its own handler, after which the frame goes on to request the
\* next one; the other two reach the handler of the whole frame, which sets
\* the error and returns. The effect that owns the loop starts it again when
\* tilesCoordinates is replaced by a new array.
gameLoopThrows(dt, steps, collisionResult, at) ==
  /\ animationFrameRef
  /\ at = "update" => gameStateRef.gameStatus = "playing"
  /\ lastTimeRef' = 1
  /\ IF gameStateRef.gameStatus = "playing" /\ at # "update"
     THEN playingFrame(dt, steps, collisionResult)
     ELSE idleFrame(dt)
  /\ gameError' = [message |-> IF at = "render" THEN "Rendering failed"
                                ELSE "Game loop failed"]
  /\ animationFrameRef' = (at = "render" \/ tilesCoordinates' # tilesCoordinates)
  /\ \E r \in runnable(loops) :
       loops' = committed(IF at = "render"
                          THEN requestAnimationFrame(callback(loops, r), r.inst)
                          ELSE callback(loops, r),
                          tilesCoordinates' # tilesCoordinates)
  /\ UNCHANGED <<gameState, keyState, probe, perspectiveVars, feelVars>>

Tick ==
  \E dt \in DeltaTimes : \E steps \in frameSteps(dt) :
    /\ loopY(dt) <= MaxYLoop
    /\ gameLoop(dt, steps, detected(dt))

(***************************************************************************)
(* Input handlers and timers                                               *)
(***************************************************************************)

Keys == {"left", "right"}

KeyDown(k) ==
  /\ ~keyState[k]
  /\ keyState' = [keyState EXCEPT ![k] = TRUE]
  /\ UNCHANGED <<gameStateRef, gameState, tilesCoordinates, playerState, lastKeyTime,
                 lastTimeRef, timers, turnsLeft, probe, gameError, animationFrameRef,
                 perspectiveVars, feelVars, loops>>

KeyUp(k) ==
  /\ keyState[k]
  /\ keyState' = [keyState EXCEPT ![k] = FALSE]
  /\ UNCHANGED <<gameStateRef, gameState, tilesCoordinates, playerState, lastKeyTime,
                 lastTimeRef, timers, turnsLeft, probe, gameError, animationFrameRef,
                 perspectiveVars, feelVars, loops>>

\* togglePause resuming from every status that is not playing.
togglePauseAny ==
  /\ gameStateRef' =
       [gameStateRef EXCEPT
          !.gameStatus = IF @ = "playing" THEN "paused" ELSE "playing"]
  /\ gameState' = [aliased |-> FALSE, gameStatus |-> gameStateRef'.gameStatus]
  /\ UNCHANGED <<tilesCoordinates, playerState, keyState, lastKeyTime, lastTimeRef,
                 timers, turnsLeft, probe, gameError, animationFrameRef,
                 perspectiveVars, feelVars, loops>>

togglePause ==
  /\ gameStateRef' =
       [gameStateRef EXCEPT
          !.gameStatus = IF @ = "playing" THEN "paused"
                         ELSE IF @ = "paused" THEN "playing" ELSE @]
  /\ gameState' = [aliased |-> FALSE, gameStatus |-> gameStateRef'.gameStatus]
  /\ UNCHANGED <<tilesCoordinates, playerState, keyState, lastKeyTime, lastTimeRef,
                 timers, turnsLeft, probe, gameError, animationFrameRef,
                 perspectiveVars, feelVars, loops>>

\* A pending recentring callback keeps the run object it was scheduled on:
\* once resetGame replaces gameStateRef.current, that object keeps the status
\* it had at the reset.
retire(t, status) ==
  IF t.stale THEN t ELSE [stale |-> TRUE, status |-> status]

resetGame(steps) ==
  /\ gameStateRef' = InitialState
  /\ gameState' = [aliased |-> TRUE, gameStatus |-> "playing"]
  /\ playerState' = setPosition(playerState, InitialState.shipPosition, NB_COLUMNS)
  /\ tilesCoordinates' = generateInitialTiles(InitialState.currentYLoop, steps)
  /\ turnsLeft' = turnsLeft - Turns(steps)
  /\ timers' = [i \in 1..Len(timers) |-> retire(timers[i], gameStateRef.gameStatus)]
  /\ animationFrameRef' = TRUE
  /\ loops' = committed(loops, TRUE)
  /\ UNCHANGED <<keyState, lastKeyTime, lastTimeRef, probe, gameError,
                 perspectiveVars, feelVars>>

\* The space key and the Resume button.
TogglePause == togglePause

\* The status the keyboard handler reads from the React state: the run's own
\* while the state is the run object (from mount or resetGame until the first
\* togglePause), the copy's afterwards.
reactStatus ==
  IF gameState.aliased THEN gameStateRef.gameStatus ELSE gameState.gameStatus

\* The escape key pauses when the React-visible status is playing.
KeyEscape ==
  /\ reactStatus = "playing"
  /\ togglePause

\* The r key resets on the Game Over screen or with ctrl held; the Play Again
\* button of the Game Over screen calls resetGame as well.
KeyR(ctrlKey) ==
  /\ reactStatus = "gameOver" \/ ctrlKey
  /\ \E steps \in StepSeqs(MIN_TILES - 3, turnsLeft) : resetGame(steps)

\* The callback handleCollision schedules with setTimeout(..., 500).
recentre ==
  /\ timers # <<>>
  /\ LET t == Head(timers)
         status == IF t.stale THEN t.status ELSE gameStateRef.gameStatus
     IN  playerState' =
           IF status = "playing"
           THEN setPosition(playerState, Lane(centreLane), NB_COLUMNS)
           ELSE playerState
  /\ timers' = Tail(timers)
  /\ UNCHANGED <<gameStateRef, gameState, tilesCoordinates, keyState, lastKeyTime,
                 lastTimeRef, turnsLeft, probe, gameError, animationFrameRef,
                 perspectiveVars, feelVars, loops>>

\* The state once the Game has mounted: controllers initialised, boundaries
\* installed, initial tiles generated from one of the step sequences
\* Seqs(n, k) offers.
\* The component as constructed, its refs and state hooks at their initial
\* values.
Constructed ==
  /\ gameStateRef = InitialState
  /\ gameState = [aliased |-> TRUE, gameStatus |-> "playing"]
  /\ gameError = Null
  /\ animationFrameRef = TRUE
  /\ loops = startLoop(NoLoop)
  /\ comboSystem = NewComboStreakSystem
  /\ powerUpSystem = NewPowerUpSystem
  /\ scaleCache = <<>>
  /\ pointCache = <<>>
  /\ cacheSize = 0
  /\ projected = Null
  /\ playerState = [position |-> InitialState.shipPosition,
                    targetPosition |-> InitialState.shipPosition,
                    velocity |-> zeroVelocity, isMoving |-> FALSE]
  /\ keyState = [left |-> FALSE, right |-> FALSE]
  /\ lastKeyTime = [left |-> Null, right |-> Null]
  /\ lastTimeRef = 0
  /\ timers = <<>>

\* The mounted component, its initial random steps drawn from stepSeqs.
MountedWith(stepSeqs, maxTurns) ==
  /\ Constructed
  /\ \E steps \in stepSeqs :
       /\ tilesCoordinates = generateInitialTiles(InitialState.currentYLoop, steps)
       /\ turnsLeft = maxTurns - Turns(steps)

Mounted(maxTurns) == MountedWith(StepSeqs(MIN_TILES - 3, maxTurns), maxTurns)

Init == Mounted(0) /\ probe = Null

Next ==
  \/ Tick
  \/ \E k \in Keys : KeyDown(k)
  \/ \E k \in Keys : KeyUp(k)
  \/ TogglePause
  \/ KeyEscape
  \/ \E ctrlKey \in BOOLEAN : KeyR(ctrlKey)

Spec == Init /\ [][Next]_vars

(***************************************************************************)
(* The loop with the collision check's result left open: handleCollision   *)
(* is exercised on every severity a CollisionResult can carry.             *)
(***************************************************************************)

Severities == {"none", "minor", "major", "fatal"}

resultOf(severity, shipPosition) ==
  IF severity = "none" THEN NoCollision(shipPosition, 0)
  ELSE [hasCollision |-> TRUE,
        collisionType |-> IF severity = "major" THEN "boundary" ELSE "off-track",
        distance |-> 0, position |-> [x |-> shipPosition, y |-> 0],
        severity |-> severity]

TickAny ==
  \E dt \in DeltaTimes : \E steps \in frameSteps(dt) : \E severity \in Severities :
    /\ loopY(dt) <= MaxRunYLoop
    /\ severity = "major" /\ gameStateRef.lives > 1 => Len(timers) < MaxTimers
    /\ gameLoop(dt, steps, resultOf(severity, moved(dt).ps.position))

\* The keys pressed in these runs.
RunKeys == {"left"}

NextRun ==
  \/ TickAny
  \/ \E k \in RunKeys : KeyDown(k)
  \/ \E k \in RunKeys : KeyUp(k)
  \/ TogglePause
  \/ KeyEscape
  \/ \E ctrlKey \in BOOLEAN : KeyR(ctrlKey)
  \/ recentre

SpecRun == Init /\ [][NextRun]_vars

InitPath == Mounted(MaxTurns) /\ probe = Null

NextPath ==
  \/ Tick
  \/ TogglePause
  \/ \E ctrlKey \in BOOLEAN : KeyR(ctrlKey)

SpecPath == InitPath /\ [][NextPath]_vars

(***************************************************************************)
(* Runs whose random source keeps turning the same way, far enough to      *)
(* push the path against an edge of the track                              *)
(***************************************************************************)

MaxEdgeTurns == 4

\* The sequences of n random steps of which at most k are step, the rest 0.
RECURSIVE OneWaySeqs(_, _, _)
OneWaySeqs(n, k, step) ==
  IF n = 0 THEN {<<>>}
  ELSE {Append(s, 0) : s \in OneWaySeqs(n - 1, k, step)}
       \cup (IF k = 0 THEN {} ELSE {Append(s, step) : s \in OneWaySeqs(n - 1, k - 1, step)})

EdgeSeqs(n, k) == OneWaySeqs(n, k, -1) \cup OneWaySeqs(n, k, 1)

InitEdge ==
  MountedWith(EdgeSeqs(MIN_TILES - 3, MaxEdgeTurns), MaxEdgeTurns) /\ probe = Null

edgeFrameSteps(dt) ==
  IF crossed(dt) /\ tilesNeededOf(tilesCoordinates, loopY(dt)) > 0
  THEN EdgeSeqs(tilesNeededOf(tilesCoordinates, loopY(dt)), turnsLeft)
  ELSE {<<>>}

TickEdge ==
  \E dt \in DeltaTimes : \E steps \in edgeFrameSteps(dt) :
    /\ loopY(dt) <= MaxRunYLoop
    /\ gameLoop(dt, steps, detected(dt))

NextEdge == TickEdge

SpecEdge == InitEdge /\ [][NextEdge]_vars

(***************************************************************************)
(* Initial tile generation under other lane counts: generateInitialTiles   *)
(* with GAME_CONSTANTS.NB_COLUMNS as a parameter                           *)
(***************************************************************************)

LaneCounts == {-1, 0, 1, NB_COLUMNS}

RECURSIVE walkFor(_, _, _, _)
walkFor(nbColumns, lastX, lastY, steps) ==
  IF steps = <<>> THEN <<>>
  ELSE LET x == Max2(0, Min2(nbColumns - 1, lastX + Head(steps)))
       IN  <<[x |-> x, y |-> lastY]>> \o walkFor(nbColumns, x, lastY + 1, Tail(steps))

generateInitialTilesFor(nbColumns, currentYLoop, steps) ==
  LET lastX == nbColumns \div 2
      lastY == currentYLoop + 1
  IN  <<[x |-> lastX, y |-> lastY], [x |-> lastX, y |-> lastY + 1],
        [x |-> lastX, y |-> lastY + 2]>> \o walkFor(nbColumns, lastX, lastY + 3, steps)

\* The component before its mount effect has generated the tiles.
InitConfig ==
  /\ Constructed
  /\ tilesCoordinates = <<>>
  /\ turnsLeft = MaxTurns
  /\ probe \in [method : {"pending"}, nbColumns : LaneCounts]

\* The mount effect's call of generateInitialTiles; it sets no error.
GenerateInitial ==
  /\ probe.method = "pending"
  /\ \E steps \in StepSeqs(MIN_TILES - 3, turnsLeft) :
       /\ tilesCoordinates' =
            generateInitialTilesFor(probe.nbColumns, gameStateRef.currentYLoop, steps)
       /\ turnsLeft' = turnsLeft - Turns(steps)
  /\ probe' = [probe EXCEPT !.method = "generateInitialTiles"]
  /\ UNCHANGED <<gameStateRef, gameState, playerState, keyState, lastKeyTime,
                 lastTimeRef, timers, gameError, animationFrameRef, perspectiveVars, feelVars, loops>>

NextConfig == GenerateInitial

SpecConfig == InitConfig /\ [][NextConfig]_vars

(***************************************************************************)
(* Frames that throw                                                       *)
(***************************************************************************)

TickThrows ==
  \E dt \in DeltaTimes : \E steps \in frameSteps(dt) : \E at \in ThrowPoints :
    /\ loopY(dt) <= MaxYLoop
    /\ gameLoopThrows(dt, steps, detected(dt), at)

\* The Try Again button of ErrorDisplay.
TryAgain ==
  /\ gameError # Null
  /\ gameError' = Null
  /\ UNCHANGED <<gameStateRef, gameState, tilesCoordinates, playerState, keyState,
                 lastKeyTime, lastTimeRef, timers, turnsLeft, probe,
                 animationFrameRef, perspectiveVars, feelVars, loops>>

NextFault ==
  \/ Tick
  \/ TickThrows
  \/ TryAgain
  \/ \E k \in RunKeys : KeyDown(k)
  \/ \E k \in RunKeys : KeyUp(k)
  \/ TogglePause
  \/ \E ctrlKey \in BOOLEAN : KeyR(ctrlKey)

SpecFault == Init /\ [][NextFault]_vars

(***************************************************************************)
(* A long run on the straight path, far enough for the speed to reach its  *)
(* cap, with the collision check's result left open between none and minor *)
(***************************************************************************)

MaxCruiseYLoop == 660

MaxPenalties == 1

\* Points the run is short of 10 per crossed row once the frame has scrolled.
lost(dt) == 10 * loopY(dt) - gameStateRef.score

TickCruise ==
  \E dt \in DeltaTimes : \E steps \in frameSteps(dt) :
    \E severity \in {"none", "minor"} :
      /\ loopY(dt) <= MaxCruiseYLoop
      /\ severity = "minor" => lost(dt) < 50 * MaxPenalties
      /\ gameLoop(dt, steps, resultOf(severity, moved(dt).ps.position))

NextCruise == TickCruise \/ TogglePause

SpecCruise == Init /\ [][NextCruise]_vars

(***************************************************************************)
(* Direct calls of PlayerController.update between key events, with        *)
(* every call that is due eventually made                                  *)
(***************************************************************************)

UpdateCall ==
  \E dt \in DeltaTimes :
    LET u == update(playerState, keyState, aged(lastKeyTime, dt), dt, NB_COLUMNS)
    IN  /\ playerState' = u.ps
        /\ lastKeyTime' = u.lkt
        /\ UNCHANGED <<gameStateRef, gameState, tilesCoordinates, keyState,
                       lastTimeRef, timers, turnsLeft, probe, gameError,
                       animationFrameRef, perspectiveVars, feelVars, loops>>

NextController ==
  \/ UpdateCall
  \/ \E k \in RunKeys : KeyDown(k)
  \/ \E k \in RunKeys : KeyUp(k)

SpecController == Init /\ [][NextController]_vars /\ WF_vars(UpdateCall)

(***************************************************************************)
(* Direct calls of PlayerController.update at intervals shorter than the   *)
(* key-repeat delay, with both direction keys                              *)
(***************************************************************************)

RepeatDeltas == {100}

UpdateRepeat ==
  \E dt \in RepeatDeltas :
    LET u == update(playerState, keyState, aged(lastKeyTime, dt), dt, NB_COLUMNS)
    IN  /\ playerState' = u.ps
        /\ lastKeyTime' = u.lkt
        /\ UNCHANGED <<gameStateRef, gameState, tilesCoordinates, keyState,
                       lastTimeRef, timers, turnsLeft, probe, gameError,
                       animationFrameRef, perspectiveVars, feelVars, loops>>

NextRepeat ==
  \/ UpdateRepeat
  \/ \E k \in Keys : KeyDown(k)
  \/ \E k \in Keys : KeyUp(k)

SpecRepeat == Init /\ [][NextRepeat]_vars

(***************************************************************************)
(* Perspective utilities (src/unnamed/part_001)                            *)
(*                                                                         *)
(* Coordinates, depths and distances are integers (pixels); a scale is an  *)
(* integer in thousandths; transformed coordinates are thousandths of a    *)
(* pixel.                                                                  *)
(***************************************************************************)

MAX_CACHE_SIZE == 1000

\* The template string `${z}_${viewerDistance}` with the viewerDistance left out.
scaleKeyNoDistance(z, viewerDistance) ==
  ToString(z)

\* The template string `${z}_${viewerDistance}`.
scaleKey(z, viewerDistance) ==
  ToString(z) \o "_" \o ToString(viewerDistance)

pointKey(x, y, perspectivePointX, perspectivePointY, height) ==
  ToString(x) \o "_" \o ToString(y) \o "_" \o ToString(perspectivePointX) \o "_"
    \o ToString(perspectivePointY) \o "_" \o ToString(height)

\* scaleOf dividing by the depth as given, negative or not.
scaleOfRawDepth(z, viewerDistance) ==
  LET scale == (viewerDistance * 1000000)
                 \div (viewerDistance * 1000 + z * 1000 + 1)
  IN  Max2(1, Min2(10000, scale))

\* The scale calculatePerspectiveScale computes on a cache miss (epsilon is
\* 0.001, the clamp is to [0.001, 10]).
scaleOf(z, viewerDistance) ==
  LET safeZ == IF z >= 0 THEN z ELSE 0
      scale == (viewerDistance * 1000000)
                 \div (viewerDistance * 1000 + safeZ * 1000 + 1)
  IN  Max2(1, Min2(10000, scale))

\* The depth transformPerspective derives from y, for a height > 0.
depthOf(y, height) == height - Max2(0, Min2(height, y))

\* height * 0.8
viewerDistanceOf(height) == (height * 8) \div 10

\* The point transformPerspective computes on a cache miss from the scale.
pointWith(scale, x, perspectivePointX, perspectivePointY, height) ==
  <<perspectivePointX * 1000 + (x - perspectivePointX) * scale,
    perspectivePointY * 1000 + scale * (height - perspectivePointY)>>

pointOf(x, y, perspectivePointX, perspectivePointY, height) ==
  pointWith(scaleOf(depthOf(y, height), viewerDistanceOf(height)), x,
            perspectivePointX, perspectivePointY, height)

\* The module's caches as one value.
caches == [scaleCache |-> scaleCache, pointCache |-> pointCache,
           cacheSize |-> cacheSize, evicted |-> FALSE]

clearCacheIfNeeded(c) ==
  IF c.cacheSize > MAX_CACHE_SIZE
  THEN [scaleCache |-> <<>>, pointCache |-> <<>>, cacheSize |-> 0, evicted |-> TRUE]
  ELSE c

\* calculatePerspectiveScale on the caches c: the caches after the call, the
\* value returned and whether it came from the cache.
calculatePerspectiveScale(c, z, viewerDistance) ==
  LET cacheKey == scaleKey(z, viewerDistance)
  IN  IF cacheKey \in DOMAIN c.scaleCache
      THEN [caches |-> c, result |-> c.scaleCache[cacheKey], hit |-> TRUE]
      ELSE LET clampedScale == scaleOf(z, viewerDistance)
               c1 == [c EXCEPT !.scaleCache = (cacheKey :> clampedScale) @@ @,
                               !.cacheSize = @ + 1]
           IN  [caches |-> clearCacheIfNeeded(c1), result |-> clampedScale,
                hit |-> FALSE]

transformPerspective(c, x, y, perspectivePointX, perspectivePointY, height) ==
  LET cacheKey == pointKey(x, y, perspectivePointX, perspectivePointY, height)
  IN  IF cacheKey \in DOMAIN c.pointCache
      THEN [caches |-> c, result |-> c.pointCache[cacheKey], hit |-> TRUE]
      ELSE LET s == calculatePerspectiveScale(c, depthOf(y, height),
                                              viewerDistanceOf(height))
               result == pointWith(s.result, x, perspectivePointX,
                                   perspectivePointY, height)
               c1 == [s.caches EXCEPT !.pointCache = (cacheKey :> result) @@ @,
                                      !.cacheSize = @ + 1]
           IN  [caches |-> clearCacheIfNeeded(c1), result |-> result, hit |-> FALSE]

\* Arguments of the calls: the depth of the far end of a canvas of height
\* 1000, under that canvas's viewer distance and under the default one.
ScaleDepths == {1000}

ViewerDistances == {800, 400}

\* The point of the calls that sweep the canvas downwards.
sweepKey(y) == pointKey(450, y, 450, 0, 1000)

\* A call repeats the first y, repeats the y of the call before it, or takes
\* the first y that is not cached.
SweepYs ==
  {0, CHOOSE y \in 0..Cardinality(DOMAIN pointCache) :
        /\ sweepKey(y) \notin DOMAIN pointCache
        /\ \A u \in 0..(y - 1) : sweepKey(u) \in DOMAIN pointCache}
    \cup (IF projected # Null /\ projected.fn = "transformPerspective"
          THEN {projected.args[2]} ELSE {})

otherVars == <<gameStateRef, gameState, tilesCoordinates, playerState, keyState,
               lastKeyTime, lastTimeRef, timers, turnsLeft, probe, gameError,
               animationFrameRef, loops, feelVars>>

installed(call, fn, args) ==
  /\ scaleCache' = call.caches.scaleCache
  /\ pointCache' = call.caches.pointCache
  /\ cacheSize' = call.caches.cacheSize
  /\ projected' = [fn |-> fn, args |-> args, result |-> call.result,
                   hit |-> call.hit, evicted |-> call.caches.evicted]
  /\ UNCHANGED otherVars

CallScale ==
  \E z \in ScaleDepths, viewerDistance \in ViewerDistances :
    installed(calculatePerspectiveScale(caches, z, viewerDistance),
              "calculatePerspectiveScale", <<z, viewerDistance>>)

CallTransform ==
  \E y \in SweepYs :
    installed(transformPerspective(caches, 450, y, 450, 0, 1000),
              "transformPerspective", <<450, y, 450, 0, 1000>>)

clearPerspectiveCache ==
  /\ scaleCache' = <<>>
  /\ pointCache' = <<>>
  /\ cacheSize' = 0
  /\ projected' = Null
  /\ UNCHANGED otherVars

\* Depths and viewer distances of the calls that compare scales: behind the
\* viewer, at the projection plane, just beyond it, and far enough for the
\* lower clamp.
CompareDepths == {-5, -1, 0, 1, 1000, 1000000}

CompareDistances == {1, 400}

CallScaleAt ==
  \E z \in CompareDepths, viewerDistance \in CompareDistances :
    installed(calculatePerspectiveScale(caches, z, viewerDistance),
              "calculatePerspectiveScale", <<z, viewerDistance>>)

NextScale == CallScaleAt \/ clearPerspectiveCache

SpecScale == Init /\ [][NextScale]_vars

NextCache == CallScale \/ CallTransform \/ clearPerspectiveCache

SpecCache == Init /\ [][NextCache]_vars

(***************************************************************************)
(* A ComboStreakSystem driven by actions, updates and breaks               *)
(***************************************************************************)

MaxComboActions == 20

\* COMBO_ACTIONS.OVERTAKE.
ComboActions == {[type |-> "overtake", value |-> 6000]}

ComboDeltas == {1000}

comboVars == <<gameStateRef, gameState, tilesCoordinates, playerState, keyState,
               lastKeyTime, lastTimeRef, timers, turnsLeft, probe, gameError,
               animationFrameRef, loops, perspectiveVars, powerUpSystem>>

AddAction ==
  \E action \in ComboActions :
    /\ comboSystem.totalActions < MaxComboActions
    /\ comboSystem' = addAction(comboSystem, action.type, action.value)
    /\ UNCHANGED comboVars

UpdateCombo ==
  \E deltaTime \in ComboDeltas :
    /\ comboSystem' = comboUpdate(comboSystem, deltaTime)
    /\ UNCHANGED comboVars

BreakCombo ==
  /\ comboSystem' = comboBroken(comboSystem)
  /\ UNCHANGED comboVars

NextCombo == AddAction \/ UpdateCombo \/ BreakCombo

SpecCombo == Init /\ [][NextCombo]_vars

(***************************************************************************)
(* A PowerUpSystem driven by updates, collections and direct activations.  *)
(* The game loop updates the system every frame, so the other calls come   *)
(* after the first update.                                                 *)
(***************************************************************************)

MaxActivations == 4

PowerUpDeltas == {5000}

powerUpVars == <<gameStateRef, gameState, tilesCoordinates, playerState, keyState,
                 lastKeyTime, lastTimeRef, timers, turnsLeft, probe, gameError,
                 animationFrameRef, loops, perspectiveVars, comboSystem>>

\* The game state object the caller passes: the same one on every frame.
passed == IF powerUpSystem.gameState = Null THEN HostGameState
          ELSE powerUpSystem.gameState

UpdatePowerUps ==
  \E deltaTime \in PowerUpDeltas, effectId \in EffectIds :
    /\ powerUpSystem' = powerUpUpdate(powerUpSystem, passed, deltaTime, effectId)
    /\ UNCHANGED powerUpVars

ActivatePowerUp(effectId) ==
  /\ powerUpSystem.gameState # Null
  /\ powerUpSystem.activations < MaxActivations
  /\ powerUpSystem' = activatePowerUp(powerUpSystem, effectId)
  /\ UNCHANGED powerUpVars

CheckCollisions ==
  \E reach \in SUBSET (1..Len(powerUpSystem.spawners)) :
    /\ powerUpSystem.gameState # Null
    /\ reach # {}
    /\ powerUpSystem.activations + Cardinality(reach) <= MaxActivations
    /\ powerUpSystem' = collected(powerUpSystem, reach, 1)
    /\ UNCHANGED powerUpVars

DeactivatePowerUp ==
  \E index \in 1..Len(powerUpSystem.activeInstances) :
    /\ powerUpSystem' = deactivatePowerUp(powerUpSystem, index)
    /\ UNCHANGED powerUpVars

ClearPowerUps ==
  /\ powerUpSystem' = powerUpClear(powerUpSystem)
  /\ UNCHANGED powerUpVars

NextPowerUp ==
  \/ UpdatePowerUps
  \/ \E effectId \in EffectIds : ActivatePowerUp(effectId)
  \/ CheckCollisions
  \/ DeactivatePowerUp
  \/ ClearPowerUps

SpecPowerUp == Init /\ [][NextPowerUp]_vars

(***************************************************************************)
(* Direct calls of the CollisionDetector's methods on drawn arguments      *)
(***************************************************************************)

ProbePositions ==
  {-500, 0, 2400, 2500, 2550, 3000, 3150, 3200, 6000, 6500, 7000, 7500}

ProbeTolerances == {100, 200, 400, 600}

ProbeConfigs ==
  {[DEFAULT_CONFIG EXCEPT !.shipTolerance = t, !.enablePredictiveCollision = e] :
     t \in ProbeTolerances, e \in BOOLEAN}

ProbeBoundaries == {DefaultBoundaries, GameBoundaries}

ProbeRows == {0, 1}

\* At most one tile on each of the rows 1..3, on lane 2 or 3.
RowChoices == {<<>>} \cup {<<[x |-> 2, y |-> 0]>>, <<[x |-> 3, y |-> 0]>>}

atRow(choice, row) == [i \in 1..Len(choice) |-> [choice[i] EXCEPT !.y = row]]

NearWindows ==
  {atRow(a, 1) \o atRow(b, 2) \o atRow(c, 3) : a \in RowChoices, b \in RowChoices,
                                                c \in RowChoices}

\* Tiles far ahead of the probed rows: none, four or five of them.
FarWindows ==
  {<<>>,
   [i \in 1..4 |-> [x |-> 3, y |-> 8 + i]],
   [i \in 1..5 |-> [x |-> 3, y |-> 8 + i]]}

ProbeWindows == {n \o f : n \in NearWindows, f \in FarWindows}

InitDetector ==
  /\ Mounted(0)
  /\ probe \in [method : {"pending"}, config : ProbeConfigs,
                boundaries : ProbeBoundaries, shipPosition : ProbePositions,
                shipY : {0}, pathTiles : ProbeWindows, currentYLoop : ProbeRows,
                result : {Null}]

gameVars == <<gameStateRef, gameState, tilesCoordinates, playerState, keyState,
              lastKeyTime, lastTimeRef, timers, turnsLeft, gameError,
              animationFrameRef, perspectiveVars, feelVars, loops>>

CallPath ==
  /\ probe.method = "pending"
  /\ probe' = [probe EXCEPT
                 !.method = "checkPathCollision",
                 !.result = checkPathCollision(probe.config, probe.shipPosition,
                                               probe.shipY, probe.pathTiles,
                                               probe.currentYLoop)]
  /\ UNCHANGED gameVars

CallAll ==
  /\ probe.method = "pending"
  /\ probe' = [probe EXCEPT
                 !.method = "checkAllCollisions",
                 !.result = checkAllCollisions(probe.config, probe.boundaries,
                                               probe.shipPosition, probe.shipY,
                                               probe.pathTiles, probe.currentYLoop)]
  /\ UNCHANGED gameVars

NextDetector == CallPath \/ CallAll

SpecDetector == InitDetector /\ [][NextDetector]_vars

(***************************************************************************)
(* Properties                                                              *)
(***************************************************************************)

status == gameStateRef.gameStatus

\* The window w has a tile on row r but none within shipTolerance of pos.
offPath(w, r, pos) ==
  /\ \E i \in 1..Len(w) : w[i].y = r
  /\ \A i \in 1..Len(w) :
       w[i].y = r => abs(Lane(w[i].x) - pos) > DEFAULT_CONFIG.shipTolerance

\* C1: in a playing frame whose tile window has a tile on the ship's row but
\* none within shipTolerance of the ship, a collision of severity minor,
\* major or fatal is handled (lastCollision records it).
C1_OffPathHasConsequence ==
  [][(/\ Tick
      /\ status = "playing"
      /\ offPath(tilesCoordinates, gameStateRef'.currentYLoop,
                 gameStateRef'.shipPosition))
     => /\ gameStateRef'.lastCollision # Null
        /\ gameStateRef'.lastCollision.severity \in {"minor", "major", "fatal"}]_vars

\* C2: two tiles of the window on rows that differ by exactly 1 are on lanes
\* that differ by at most 1.
C2_Continuity ==
  \A i, j \in 1..Len(tilesCoordinates) :
    abs(tilesCoordinates[i].y - tilesCoordinates[j].y) = 1
      => abs(tilesCoordinates[i].x - tilesCoordinates[j].x) <= 1

\* C3: each tile of the window is on the row after the tile before it, so
\* the window is sorted by row and no row occurs twice.
C3_RowsIncreaseByOne ==
  \A i \in 1..(Len(tilesCoordinates) - 1) :
    tilesCoordinates[i + 1].y = tilesCoordinates[i].y + 1

liveTiles ==
  Cardinality({i \in 1..Len(tilesCoordinates) :
                 tilesCoordinates[i].y >= gameStateRef.currentYLoop})

\* C4: once a row has been crossed (generateTilesCoordinates has run), the
\* window holds between MIN_TILES and MAX_TILES tiles on rows >= currentYLoop.
C4_WindowBound ==
  gameStateRef.currentYLoop >= 1 => liveTiles >= MIN_TILES /\ liveTiles <= MAX_TILES

\* C4 witness: a window that generateTilesCoordinates has trimmed and refilled.
C4_Witness ==
  /\ gameStateRef.currentYLoop >= 3
  /\ tilesCoordinates[1].y >= 3
  /\ liveTiles = MIN_TILES

called(method) == probe # Null /\ probe.method = method

\* C5: checkAllCollisions on a lane position outside [0, NB_COLUMNS) returns a
\* boundary collision of severity major, whatever the window and the row.
C5_BoundaryPrecedence ==
  (/\ called("checkAllCollisions")
   /\ probe.shipPosition < 0 \/ probe.shipPosition >= Lane(NB_COLUMNS))
  => /\ probe.result.hasCollision
     /\ probe.result.collisionType = "boundary"
     /\ probe.result.severity = "major"

\* C5 witness: a position left of lane 0 over a window whose path check alone
\* reports an off-track collision.
C5_Witness ==
  /\ called("checkAllCollisions")
  /\ probe.shipPosition < 0
  /\ checkPathCollision(probe.config, probe.shipPosition, probe.shipY,
                        probe.pathTiles, probe.currentYLoop).hasCollision
  /\ probe.result.collisionType = "boundary"

\* C6: the status changes only playing <-> paused by togglePause, playing ->
\* gameOver by a handled major or fatal collision, and to playing by
\* resetGame; togglePause, frames and timers leave gameOver in place.
C6_StatusTransitions ==
  [][/\ status' # status =>
          \/ /\ togglePause
             /\ <<status, status'>> \in {<<"playing", "paused">>, <<"paused", "playing">>}
          \/ /\ TickAny
             /\ status = "playing" /\ status' = "gameOver"
             /\ gameStateRef'.lastCollision # Null
             /\ gameStateRef'.lastCollision.severity \in {"major", "fatal"}
          \/ /\ \E ctrlKey \in BOOLEAN : KeyR(ctrlKey)
             /\ status' = "playing"
     /\ (status = "gameOver" /\ (togglePause \/ TickAny \/ recentre))
          => status' = "gameOver"]_vars

\* C6 witness: togglePause has run on a finished run (only then does the
\* React copy show gameOver) and the run is still over.
C6_Witness == status = "gameOver" /\ gameState.gameStatus = "gameOver"

\* The frame handled a collision of the given severity.
handled(severity) ==
  /\ TickAny
  /\ status = "playing"
  /\ gameStateRef'.lastCollision # Null
  /\ gameStateRef'.lastCollision.severity = severity

\* C7: lives stays within 0..3 and the status is gameOver exactly when lives
\* is 0; a fatal outcome zeroes lives and ends the run, a major outcome takes
\* one life and ends the run exactly when it was the last one.
C7_LivesAndGameOver ==
  /\ [](/\ gameStateRef.lives \in 0..3
        /\ status = "gameOver" <=> gameStateRef.lives = 0)
  /\ [][/\ handled("fatal") => gameStateRef'.lives = 0 /\ status' = "gameOver"
        /\ handled("major") =>
             /\ gameStateRef'.lives = gameStateRef.lives - 1
             /\ status' = "gameOver" <=> gameStateRef.lives = 1]_vars

\* C7 witness: a major collision has taken the last life.
C7_Witness ==
  /\ gameStateRef.lives = 0
  /\ status = "gameOver"
  /\ gameStateRef.lastCollision # Null
  /\ gameStateRef.lastCollision.severity = "major"

noTileAtShipRow ==
  \A i \in 1..Len(probe.pathTiles) :
    probe.pathTiles[i].y # probe.currentYLoop + probe.shipY

noTileNearShipRow ==
  \A i \in 1..Len(probe.pathTiles) :
    abs(probe.pathTiles[i].y - (probe.currentYLoop + probe.shipY)) > 2

\* C9 as stated: checkPathCollision with no tile on the ship's row and fewer
\* than 5 tiles in the window returns an off-track collision of severity minor.
C9_StartupAlwaysMinor ==
  (called("checkPathCollision") /\ noTileAtShipRow /\ Len(probe.pathTiles) < 5)
  => probe.result.collisionType = "off-track" /\ probe.result.severity = "minor"

\* C9 amended: in that case the result is never major or fatal: it is an
\* off-track collision of severity minor when no tile lies within 2 rows of
\* the ship's row, and no collision when one does.
C9_StartupNeverMajor ==
  (called("checkPathCollision") /\ noTileAtShipRow /\ Len(probe.pathTiles) < 5)
  => IF noTileNearShipRow
     THEN /\ probe.result.hasCollision
          /\ probe.result.collisionType = "off-track"
          /\ probe.result.severity = "minor"
     ELSE /\ ~probe.result.hasCollision
          /\ probe.result.severity = "none"

\* C9 witness: four tiles, all far from the ship's row, graded minor.
C9_Witness ==
  /\ called("checkPathCollision")
  /\ Len(probe.pathTiles) = 4
  /\ noTileNearShipRow
  /\ probe.result.severity = "minor"

\* C10: when checkAllCollisions returns no collision, it returns no collision
\* for every larger shipTolerance on the same arguments.
C10_ToleranceMonotone ==
  (called("checkAllCollisions") /\ probe.result.collisionType = "none")
  => \A t \in ProbeTolerances :
       t >= probe.config.shipTolerance =>
         checkAllCollisions([probe.config EXCEPT !.shipTolerance = t],
                            probe.boundaries, probe.shipPosition, probe.shipY,
                            probe.pathTiles,
                            probe.currentYLoop).collisionType = "none"

\* C10 witness: no collision at the smallest tolerance with the look-ahead
\* on, the ship off the tile centres of its row and of the two rows ahead.
C10_Witness ==
  /\ called("checkAllCollisions")
  /\ probe.result.collisionType = "none"
  /\ probe.config.shipTolerance < 400
  /\ probe.config.enablePredictiveCollision
  /\ \A r \in 0..2 : \E i \in 1..Len(probe.pathTiles) :
       /\ probe.pathTiles[i].y = probe.currentYLoop + r
       /\ Lane(probe.pathTiles[i].x) # probe.shipPosition

\* C11: a playing frame that ends on one of the rows 0..3 with the ship on the
\* centre lane handles no collision of severity minor, major or fatal, and
\* leaves the score no lower and the lives unchanged.
C11_SafeCorridor ==
  [][(/\ Tick
      /\ status = "playing"
      /\ gameStateRef'.currentYLoop \in 0..3
      /\ playerState'.position = Lane(centreLane))
     => /\ gameStateRef'.lastCollision = Null
        /\ gameStateRef'.score >= gameStateRef.score
        /\ gameStateRef'.lives = gameStateRef.lives]_vars

\* The window is the one generateInitialTiles builds from row 0: MIN_TILES
\* tiles on rows 1..MIN_TILES, the first three on the centre lane.
straightStart(w) ==
  /\ Len(w) = MIN_TILES
  /\ \A i \in 1..Len(w) : w[i].y = i
  /\ \A i \in 1..3 : w[i].x = centreLane

\* Lane changes along the window.
windowTurns(w) == Cardinality({i \in 1..(Len(w) - 1) : w[i + 1].x # w[i].x})

\* C12: at mount and after every resetGame the window is (3,1), (3,2), (3,3)
\* followed by 13 more tiles, 16 tiles on rows 1..16, whatever the random
\* source drew.
C12_StraightStart ==
  /\ straightStart(tilesCoordinates)
  /\ [][(\E ctrlKey \in BOOLEAN : KeyR(ctrlKey)) => straightStart(tilesCoordinates')]_vars

\* C12 witness: a window built by resetGame (random steps had been drawn
\* before it) whose random part leaves the centre lane.
C12_Witness ==
  /\ gameStateRef.currentYLoop = 0
  /\ straightStart(tilesCoordinates)
  /\ windowTurns(tilesCoordinates) > 0
  /\ turnsLeft + windowTurns(tilesCoordinates) < MaxTurns

\* C13: a playing frame ends with speed = min(240 + floor(score / 500) * 20,
\* 480) for the score it ends with (280 at score 1000), and the speed is
\* within 240..480 in every state.
C13_SpeedStepping ==
  /\ [](gameStateRef.speed >= 240 /\ gameStateRef.speed <= 480)
  /\ [][(TickCruise /\ status = "playing")
        => /\ gameStateRef'.speed =
                Min2(240 + (gameStateRef'.score \div 500) * 20, 480)
           /\ gameStateRef'.score = 1000 => gameStateRef'.speed = 280]_vars

\* C13 witness: a frame past the cap (the uncapped formula gives 500 or more)
\* that took 50 points for a minor collision and ended at speed 480.
C13_Witness ==
  /\ gameStateRef.score >= 6500
  /\ gameStateRef.lastCollision # Null
  /\ gameStateRef.lastCollision.severity = "minor"
  /\ gameStateRef.speed = 480

\* C14: a frame whose update throws, the exception reaching the handler of
\* the whole frame, sets the error and still has the next frame requested.
C14_LoopSurvivesErrors ==
  [][(\E dt \in DeltaTimes : \E steps \in frameSteps(dt) :
        gameLoopThrows(dt, steps, detected(dt), "update"))
     => gameError' # Null /\ animationFrameRef']_vars

snapped ==
  /\ playerState.position = playerState.targetPosition
  /\ playerState.velocity = zeroVelocity
  /\ ~playerState.isMoving

keysUp == ~keyState.left /\ ~keyState.right

\* C15: once a move has been accepted (the ship is away from its target) and
\* the keys are up, update calls lead to a state where position equals
\* targetPosition, velocity is 0 and isMoving is false, unless a key goes
\* down first.
C15_SnapToTarget ==
  (keysUp /\ playerState.position # playerState.targetPosition)
    ~> (snapped \/ ~keysUp)

\* The value an uncached computation returns on the arguments of the last call.
uncached ==
  IF projected.fn = "calculatePerspectiveScale"
  THEN scaleOf(projected.args[1], projected.args[2])
  ELSE pointOf(projected.args[1], projected.args[2], projected.args[3],
               projected.args[4], projected.args[5])

\* C16: every call of calculatePerspectiveScale and transformPerspective
\* returns the value the uncached computation gives on its arguments,
\* whatever the caches hold, across evictions and clearPerspectiveCache.
C16_CacheTransparency ==
  projected # Null => projected.result = uncached

\* C16 witness: a transformPerspective call served from the cache for a point
\* whose scale is no longer cached: the point was stored by the call whose
\* scale computation made the caches overflow and emptied them.
C16_Witness ==
  /\ projected # Null
  /\ projected.fn = "transformPerspective"
  /\ projected.hit
  /\ scaleKey(depthOf(projected.args[2], projected.args[5]),
              viewerDistanceOf(projected.args[5])) \notin DOMAIN scaleCache

\* The tiles of the probed window on the ship's row.
shipRowTiles ==
  {i \in 1..Len(probe.pathTiles) :
     probe.pathTiles[i].y = probe.currentYLoop + probe.shipY}

shipRowDistances ==
  {abs(Lane(probe.pathTiles[i].x) - probe.shipPosition) : i \in shipRowTiles}

\* The distance from the ship to the nearest tile of its row.
nearestDistance == CHOOSE d \in shipRowDistances : \A e \in shipRowDistances : d <= e

\* checkPathCollision was called with tiles on the ship's row, none of them
\* within shipTolerance of the ship.
sameRowOffTrack ==
  /\ called("checkPathCollision")
  /\ shipRowTiles # {}
  /\ \A d \in shipRowDistances : d > probe.config.shipTolerance

\* C17: a same-row off-track result carries the distance d to the nearest
\* tile of the row and is graded major for d <= 0.2, minor for 0.2 < d <= 0.5
\* and none for d > 0.5; it is never fatal (d is never 0 there).
C17_SeverityGrading ==
  sameRowOffTrack =>
    /\ probe.result.hasCollision
    /\ probe.result.collisionType = "off-track"
    /\ probe.result.distance = nearestDistance
    /\ nearestDistance > 0
    /\ probe.result.severity =
         (IF nearestDistance <= 200 THEN "major"
          ELSE IF nearestDistance <= 500 THEN "minor" ELSE "none")

\* C17 witness: a miss by 0.15 lane under a shipTolerance of 0.1, graded major.
C17_Witness ==
  /\ sameRowOffTrack
  /\ nearestDistance = 150
  /\ probe.result.severity = "major"

\* The probed window has a tile within shipTolerance of the ship on the row
\* ahead rows in front of the ship's row.
supportedAt(ahead) ==
  \E i \in 1..Len(probe.pathTiles) :
    /\ probe.pathTiles[i].y = probe.currentYLoop + probe.shipY + ahead
    /\ abs(Lane(probe.pathTiles[i].x) - probe.shipPosition)
         <= probe.config.shipTolerance

gapAhead == \E ahead \in 1..probe.config.lookAheadDistance : ~supportedAt(ahead)

\* C18: with the ship supported on its own row, checkPathCollision returns an
\* off-track collision of severity minor exactly when the look-ahead is
\* enabled and one of the next lookAheadDistance rows has no tile within
\* shipTolerance of the ship; otherwise it returns no collision.
C18_PredictiveCheck ==
  (called("checkPathCollision") /\ supportedAt(0)) =>
    IF probe.config.enablePredictiveCollision /\ gapAhead
    THEN /\ probe.result.hasCollision
         /\ probe.result.collisionType = "off-track"
         /\ probe.result.severity = "minor"
    ELSE /\ ~probe.result.hasCollision
         /\ probe.result.collisionType = "none"
         /\ probe.result.severity = "none"

\* C18 witness: the ship is supported on its row and on the next one, the
\* second row ahead has a tile but not under the ship, and the look-ahead
\* reports it.
C18_Witness ==
  /\ called("checkPathCollision")
  /\ probe.config.enablePredictiveCollision
  /\ supportedAt(0) /\ supportedAt(1) /\ ~supportedAt(2)
  /\ probe.result.severity = "minor"
  /\ probe.result.position.y = probe.currentYLoop + probe.shipY + 2

\* C19: every tile of the window is on a lane in 0..NB_COLUMNS - 1.
C19_LanesInRange ==
  \A i \in 1..Len(tilesCoordinates) :
    tilesCoordinates[i].x >= 0 /\ tilesCoordinates[i].x <= NB_COLUMNS - 1

\* C19 witness: generateTilesCoordinates appended a tile on an edge lane after
\* a tile on that lane, and a step drawn somewhere along the window was
\* clamped (more steps were drawn than the window has lane changes).
C19_Witness ==
  /\ gameStateRef.currentYLoop >= 2
  /\ Len(tilesCoordinates) > MIN_TILES - 2
  /\ tilesCoordinates[Len(tilesCoordinates)].x \in {0, NB_COLUMNS - 1}
  /\ tilesCoordinates[Len(tilesCoordinates)].y <= MIN_TILES
  /\ tilesCoordinates[Len(tilesCoordinates) - 1].x
       = tilesCoordinates[Len(tilesCoordinates)].x
  /\ turnsLeft + windowTurns(tilesCoordinates) < MaxEdgeTurns

recordedOn(w, shipPosition, currentYLoop) ==
  LET r == IF Len(w) >= 3
           THEN checkAllCollisions(DEFAULT_CONFIG, GameBoundaries, shipPosition, 0, w,
                                   currentYLoop)
           ELSE NoCollision(shipPosition, 0)
  IN  IF r.hasCollision /\ r.severity # "none" THEN r ELSE Null

rowCrossed == gameStateRef'.currentYLoop # gameStateRef.currentYLoop

\* C21: in a playing frame that crosses a row boundary, the collision the
\* frame records is the one checkAllCollisions reports on the window that
\* generateTilesCoordinates produced for the new currentYLoop.
C21_CheckReadsNewWindow ==
  [][(Tick /\ status = "playing" /\ rowCrossed)
     => gameStateRef'.lastCollision =
          recordedOn(tilesCoordinates', gameStateRef'.shipPosition,
                     gameStateRef'.currentYLoop)]_vars

(***************************************************************************)
(* Play-throughs: the run as a value, so that the runs a player can        *)
(* produce from a state are a set                                          *)
(***************************************************************************)

MaxPlayFrames == 40

MaxKeyChanges == 2

\* What the player holds during a frame.
KeyChoices ==
  {[left |-> FALSE, right |-> FALSE], [left |-> TRUE, right |-> FALSE],
   [left |-> FALSE, right |-> TRUE]}

\* gameLoop on the run r (its run object gs, controller ps / ks / lkt, tile
\* window, lastTime and number of pending recentring callbacks), the frame's
\* tile generation drawing the given steps.
frameOf(r, dt, steps) ==
  LET deltaTime == IF r.lastTime > 0 THEN dt ELSE 0
      m == update(r.ps, r.ks, aged(r.lkt, dt), deltaTime, NB_COLUMNS)
      offsetY == r.gs.currentOffsetY + r.gs.speed * deltaTime
      y == IF offsetY >= spacingY THEN r.gs.currentYLoop + 1 ELSE r.gs.currentYLoop
      g1 == [r.gs EXCEPT
               !.shipPosition = m.ps.position,
               !.currentYLoop = y,
               !.currentOffsetY = IF offsetY >= spacingY THEN offsetY - spacingY
                                  ELSE offsetY,
               !.score = IF offsetY >= spacingY THEN @ + 10 ELSE @]
      collisionResult ==
        IF Len(r.tiles) >= 3
        THEN checkAllCollisions(DEFAULT_CONFIG, GameBoundaries, m.ps.position, 0,
                                r.tiles, y)
        ELSE NoCollision(m.ps.position, 0)
      h == IF collisionResult.hasCollision /\ collisionResult.severity # "none"
           THEN handleCollision(g1, collisionResult)
           ELSE [gs |-> [g1 EXCEPT !.lastCollision = Null], timer |-> FALSE]
  IN  IF r.gs.gameStatus = "playing"
      THEN [r EXCEPT !.gs = [h.gs EXCEPT !.speed = speedFor(h.gs.score)],
                     !.ps = m.ps,
                     !.lkt = m.lkt,
                     !.tiles = IF offsetY >= spacingY
                               THEN generateTilesCoordinates(r.tiles, y, steps)
                               ELSE r.tiles,
                     !.lastTime = 1,
                     !.timers = IF h.timer THEN @ + 1 ELSE @]
      ELSE [r EXCEPT !.lkt = aged(r.lkt, dt), !.lastTime = 1]

\* The recentring callbacks of the run r that are due fire before its frame.
recentred(r) ==
  IF r.timers > 0 /\ r.gs.gameStatus = "playing"
  THEN [r EXCEPT !.ps = setPosition(r.ps, Lane(centreLane), NB_COLUMNS), !.timers = 0]
  ELSE [r EXCEPT !.timers = 0]

\* The runs one more frame leads to: the player settles the keys (changing
\* them at most as often as changes allows), a pending callback may fire,
\* and the frame runs on a straight continuation of the path.
framesAfter(q) ==
  {[run |-> frameOf(t, dt, [i \in 1..tilesNeededOf(t.tiles, t.gs.currentYLoop + 1) |-> 0]),
    changes |-> IF t.ks = q.run.ks THEN q.changes ELSE q.changes - 1] :
     t \in {[u EXCEPT !.ks = ks] :
              u \in {q.run, recentred(q.run)},
              ks \in {k \in KeyChoices : k = q.run.ks \/ q.changes > 0}},
     dt \in DeltaTimes}

\* The runs a player can be in after at most n frames from the run r.
RECURSIVE played(_, _)
played(qs, n) ==
  IF n = 0 THEN qs
  ELSE qs \cup played(UNION {framesAfter(q) : q \in qs}, n - 1)

\* The run the component is in.
thisRun ==
  [gs |-> gameStateRef, ps |-> playerState, ks |-> keyState, lkt |-> lastKeyTime,
   tiles |-> tilesCoordinates, lastTime |-> lastTimeRef, timers |-> Len(timers)]

justMounted == lastTimeRef = 0 /\ gameStateRef = InitialState

\* C22: from the state after mount there is a sequence of key inputs and
\* frames after which lives is 0 and the status is gameOver.
C22_GameOverReachable ==
  justMounted =>
    \E q \in played({[run |-> thisRun, changes |-> MaxKeyChanges]}, MaxPlayFrames) :
      q.run.gs.lives = 0 /\ q.run.gs.gameStatus = "gameOver"

\* A recentring callback scheduled by a collision of this run is pending.
recovering == \E i \in 1..Len(timers) : ~timers[i].stale

frozen ==
  <<gameStateRef.score, gameStateRef.lives, gameStateRef.speed,
    gameStateRef.currentYLoop, gameStateRef.currentOffsetY,
    gameStateRef.shipPosition, playerState.position, tilesCoordinates>>

\* The scroll offset a frame adds, rows crossed included.
scrolled ==
  (gameStateRef'.currentYLoop - gameStateRef.currentYLoop) * spacingY
    + gameStateRef'.currentOffsetY - gameStateRef.currentOffsetY

freshWindow(w) ==
  /\ Len(w) = MIN_TILES
  /\ \A i \in 1..Len(w) : w[i].y = i
  /\ \A i \in 1..3 : w[i].x = centreLane

\* C25: right after resetGame, from any status, the run object has its
\* initial values (score 0, lives 3, speed 240, currentYLoop 0, currentOffsetY
\* 0, lastCollision null, status playing), the player's position and target
\* are the centre lane with isMoving false, and the tile window is a fresh
\* window of 16 tiles starting at row 1.
C25_ResetReinitialises ==
  [][(\E ctrlKey \in BOOLEAN : KeyR(ctrlKey))
     => /\ gameStateRef'.score = 0
        /\ gameStateRef'.lives = 3
        /\ gameStateRef'.speed = SCROLL_SPEED
        /\ gameStateRef'.currentYLoop = 0
        /\ gameStateRef'.currentOffsetY = 0
        /\ gameStateRef'.lastCollision = Null
        /\ status' = "playing"
        /\ playerState'.position = Lane(3)
        /\ playerState'.targetPosition = Lane(3)
        /\ ~playerState'.isMoving
        /\ freshWindow(tilesCoordinates')]_vars

\* C25 witness: the run has just been reset from the Game Over screen, with a
\* recentring callback of the finished run still pending.
C25_Witness ==
  /\ gameStateRef = InitialState
  /\ lastTimeRef = 1
  /\ \E i \in 1..Len(timers) : timers[i].stale /\ timers[i].status = "gameOver"

\* C26: with the boundaries the Game installs, checkAllCollisions reports a
\* boundary collision only for lane positions outside [0, NB_COLUMNS), and
\* none for a position from lane 0 to the rightmost lane NB_COLUMNS - 1.
C26_ValidLanesBoundaryFree ==
  (called("checkAllCollisions") /\ probe.boundaries = GameBoundaries)
  => /\ probe.result.collisionType = "boundary"
          => probe.shipPosition < 0 \/ probe.shipPosition >= Lane(NB_COLUMNS)
     /\ (0 <= probe.shipPosition /\ probe.shipPosition <= Lane(NB_COLUMNS - 1))
          => probe.result.collisionType # "boundary"

\* C27: after every playing frame the scroll offset is within one row,
\* 0 <= currentOffsetY < TILE_SPACING_Y * canvas height, and currentYLoop
\* never decreases while the run lasts.
C27_ScrollWrap ==
  /\ [](0 <= gameStateRef.currentOffsetY /\ gameStateRef.currentOffsetY < spacingY)
  /\ [][TickCruise => gameStateRef'.currentYLoop >= gameStateRef.currentYLoop]_vars

\* The frame of the long run handled a minor collision.
minorHandled ==
  /\ TickCruise
  /\ status = "playing"
  /\ gameStateRef'.lastCollision # Null
  /\ gameStateRef'.lastCollision.severity = "minor"

\* C28: a frame that handles a minor collision leaves lives and status as
\* they were and schedules no timer, its score is max(0, s - 50) for the score
\* s the frame's scrolling had reached, its row and the player's position are
\* those the frame's scrolling and update produced; the score is never
\* negative.
C28_MinorPenalty ==
  /\ [](gameStateRef.score >= 0)
  /\ [][minorHandled =>
          \E dt \in DeltaTimes :
            /\ gameStateRef'.lives = gameStateRef.lives
            /\ status' = status
            /\ timers' = timers
            /\ gameStateRef'.score =
                 Max2(0, gameStateRef.score + (IF crossed(dt) THEN 10 ELSE 0) - 50)
            /\ gameStateRef'.currentYLoop = loopY(dt)
            /\ playerState' = moved(dt).ps]_vars

\* C28 witness: a minor collision has just taken 50 points from a run that
\* had more than that.
C28_Witness ==
  /\ gameStateRef.lastCollision # Null
  /\ gameStateRef.lastCollision.severity = "minor"
  /\ gameStateRef.score > 0
  /\ gameStateRef.score = 10 * gameStateRef.currentYLoop - 50

\* The update call accepted a move in direction k: it stamped lastKeyTime[k].
accepted(k) == UpdateRepeat /\ lastKeyTime'[k] = [age |-> 0]

\* Lanes an accepted move in a direction contributes, in thousandths.
oneLane(moves) == IF moves THEN Lane(1) ELSE 0

\* ms between the last accepted move in direction k and this update call
\* are at least keyRepeatDelay.
spaced(k) ==
  lastKeyTime[k] = Null
    \/ \E dt \in RepeatDeltas : lastKeyTime[k].age + dt >= keyRepeatDelay

\* C29 as claimed: two accepted moves in a direction are at least
\* keyRepeatDelay apart, and each accepted move changes targetPosition by
\* exactly one lane in its direction, the target staying in [0, NB_COLUMNS - 1].
C29_KeyRepeat ==
  [][/\ \A k \in Keys : accepted(k) => keyState[k] /\ spaced(k)
     /\ UpdateRepeat =>
          /\ playerState'.targetPosition =
               playerState.targetPosition - oneLane(accepted("left"))
                 + oneLane(accepted("right"))
          /\ playerState'.targetPosition >= 0
          /\ playerState'.targetPosition <= Lane(NB_COLUMNS - 1)]_vars

\* C29 amended: as above, except that a move to the left accepted with the
\* target already on lane 0 leaves the target there.
C29_KeyRepeatClamped ==
  [][/\ \A k \in Keys : accepted(k) => keyState[k] /\ spaced(k)
     /\ UpdateRepeat =>
          /\ playerState'.targetPosition =
               playerState.targetPosition
                 - oneLane(accepted("left") /\ playerState.targetPosition > 0)
                 + oneLane(accepted("right"))
          /\ playerState'.targetPosition >= 0
          /\ playerState'.targetPosition <= Lane(NB_COLUMNS - 1)]_vars

\* C29 witness: the left key is still held 100 ms after a move to the left was
\* accepted, the target one lane left of the centre.
C29_Witness ==
  /\ keyState.left
  /\ lastKeyTime.left # Null
  /\ lastKeyTime.left.age = 100
  /\ playerState.targetPosition = Lane(centreLane - 1)

(***************************************************************************)
(* The life of the game-loop effect: frames, faults, resets, a change of   *)
(* the showShip prop and the unmount                                       *)
(***************************************************************************)

\* The parent renders the Game with another showShip: a dependency of the
\* effect changed, nothing else did.
ShowShipChanges ==
  /\ loops' = committed(loops, TRUE)
  /\ animationFrameRef' = TRUE
  /\ UNCHANGED <<gameStateRef, gameState, tilesCoordinates, playerState, keyState,
                 lastKeyTime, lastTimeRef, timers, turnsLeft, probe, gameError,
                 perspectiveVars, feelVars>>

\* The component unmounts: the loop effect's cleanup and the controller's
\* (PlayerController.cleanup resets the key state).
Unmount ==
  /\ loops' = cleanup(loops)
  /\ animationFrameRef' = FALSE
  /\ keyState' = [left |-> FALSE, right |-> FALSE]
  /\ lastKeyTime' = [left |-> Null, right |-> Null]
  /\ UNCHANGED <<gameStateRef, gameState, tilesCoordinates, playerState, lastTimeRef,
                 timers, turnsLeft, probe, gameError, perspectiveVars, feelVars>>

\* An effect run has installed a loop that no cleanup has ended yet.
mounted == loops.inst # 0

NextLoop ==
  \/ Tick
  \/ TickThrows
  \/ mounted /\ TryAgain
  \/ mounted /\ \E k \in RunKeys : KeyDown(k)
  \/ mounted /\ \E k \in RunKeys : KeyUp(k)
  \/ mounted /\ TogglePause
  \/ mounted /\ \E ctrlKey \in BOOLEAN : KeyR(ctrlKey)
  \/ mounted /\ ShowShipChanges
  \/ mounted /\ Unmount

SpecLoop == Init /\ [][NextLoop]_vars

\* C30: no orphaned ticks. Every frame whose callback would get past the
\* isRunning test was requested by the loop instance of the latest effect run,
\* which no cleanup has ended; no instance a cleanup has ended is still
\* running or has a frame requested, so none of its ticks executes; and the
\* frames requested at any time are all of one instance.
C30_NoOrphanedTicks ==
  /\ \A r \in loops.pending : r.inst = loops.inst
  /\ loops.running \subseteq {loops.inst}
  /\ Cardinality({r.inst : r \in loops.pending}) <= 1

\* A frame crossed a row and replaced the tile window, so the effect was
\* cleaned up and run again: the new instance has its frame requested.
C30_Witness ==
  /\ gameStateRef.currentYLoop >= 1
  /\ loops.running = {loops.inst}
  /\ Cardinality(loops.pending) = 1

C32_RearTrimmed ==
  \A i \in 1..Len(tilesCoordinates) :
    tilesCoordinates[i].y >= gameStateRef.currentYLoop

\* The first row was crossed and the call added nothing: all MIN_TILES tiles
\* of the window were still ahead.
C32_Witness ==
  /\ gameStateRef.currentYLoop = 1
  /\ Len(tilesCoordinates) = MIN_TILES
  /\ tilesNeededOf(tilesCoordinates, 1) = 0
  /\ lastTimeRef = 1

\* The scale the call for depth z returned, once it has been made.
returned(z, viewerDistance) == scaleCache[scaleKey(z, viewerDistance)]

scaled(z, viewerDistance) == scaleKey(z, viewerDistance) \in DOMAIN scaleCache

\* C33: for a viewer distance above 0 the scales returned lie between 0.001
\* and 10 and do not increase with the depth, and the scale returned for a
\* negative depth is the one returned for depth 0.
C33_ScaleMonotone ==
  \A viewerDistance \in CompareDistances : \A z1, z2 \in CompareDepths :
    (z1 <= z2 /\ scaled(z1, viewerDistance) /\ scaled(z2, viewerDistance)) =>
      /\ 1 <= returned(z2, viewerDistance)
      /\ returned(z2, viewerDistance) <= returned(z1, viewerDistance)
      /\ returned(z1, viewerDistance) <= 10000
      /\ z1 < 0 /\ z2 = 0 =>
           returned(z1, viewerDistance) = returned(z2, viewerDistance)

\* Calls were made for a negative depth, for depth 0, for a depth whose scale
\* is smaller and for one that meets the lower clamp.
C33_Witness ==
  /\ scaled(-1, 400) /\ scaled(0, 400) /\ scaled(1000, 400) /\ scaled(1000000, 400)
  /\ returned(1000, 400) < returned(0, 400)
  /\ returned(1000000, 400) = 1

\* C34: with the default shipTolerance of 0.4 the same-row off-track branch
\* of checkPathCollision grades its collision minor or none, and neither
\* checkPathCollision nor checkAllCollisions ever returns fatal.
C34_NeverFatal ==
  (probe.method # "pending" /\ probe.config.shipTolerance = DEFAULT_CONFIG.shipTolerance) =>
    /\ probe.result.severity # "fatal"
    /\ sameRowOffTrack => probe.result.severity \in {"minor", "none"}

\* The same-row off-track branch under the default tolerance, graded minor
\* (the ship 0.45 off the tile's lane).
C34_Witness ==
  /\ probe.config.shipTolerance = DEFAULT_CONFIG.shipTolerance
  /\ sameRowOffTrack
  /\ probe.result.distance = 450
  /\ probe.result.severity = "minor"

(***************************************************************************)
(* Random paths with frames half a row apart: every other frame crosses a  *)
(* row                                                                     *)
(***************************************************************************)

FineDeltas == {125}

TickFine ==
  \E dt \in FineDeltas : \E steps \in frameSteps(dt) :
    /\ loopY(dt) <= MaxYLoop
    /\ gameLoop(dt, steps, detected(dt))

NextSupport ==
  \/ TickFine
  \/ \E ctrlKey \in BOOLEAN : KeyR(ctrlKey)

SpecSupport == InitPath /\ [][NextSupport]_vars

\* The tiles of the window the frame's collision check reads (the one the
\* loop closure holds) on the row the check is made for.
supporting ==
  getTilesAtPosition(tilesCoordinates, gameStateRef'.currentYLoop, 0)

\* C35: support at the current row. In every playing frame with currentYLoop
\* at 1 or more, the window passed to the collision check holds a tile on
\* row currentYLoop, so the check never takes a branch for a row without
\* tiles.
C35_SupportAtRow ==
  [][(TickFine /\ status = "playing" /\ gameStateRef'.currentYLoop >= 1) =>
       Len(supporting) > 0]_vars

\* A frame has made its check three rows or more into the run, past the
\* rows where the window is still the initial one, without crossing a row.
C35_Witness ==
  /\ status = "playing"
  /\ lastTimeRef = 1
  /\ gameStateRef.currentYLoop >= 3
  /\ gameStateRef.currentOffsetY > 0
  /\ Len(getTilesAtPosition(tilesCoordinates, gameStateRef.currentYLoop, 0)) > 0

\* C36: the combo multiplier stays between 1.0 and config.multiplierCap,
\* whatever actions, updates and breaks were made and whichever
\* score_multiplier reward is active.
C36_MultiplierCap ==
  /\ comboSystem.scoreMultiplier >= 1000
  /\ comboSystem.scoreMultiplier <= ComboConfig.multiplierCap


\* The applications of effectId in force: the stacks of its active instances
\* added up.
RECURSIVE stacksOf(_, _)
stacksOf(instances, effectId) ==
  IF instances = <<>> THEN 0
  ELSE (IF Head(instances).effectId = effectId THEN Head(instances).stacks ELSE 0)
       + stacksOf(Tail(instances), effectId)

\* C37: for every stackable effect, the stacks of its active instances add up
\* to no more than the effect's maxStacks.
C37_StackLimit ==
  \A effectId \in EffectIds :
    PowerUpEffects[effectId].stackable =>
      stacksOf(powerUpSystem.activeInstances, effectId)
        <= PowerUpEffects[effectId].maxStacks


\* No instance of effectId is active.
allGone(effectId) ==
  \A i \in 1..Len(powerUpSystem.activeInstances) :
    powerUpSystem.activeInstances[i].effectId # effectId

\* C38: once every instance of a timed effect has expired or been removed,
\* the game-state field the effect changes has the value it had before the
\* first activation.
C38_RoundTrip ==
  powerUpSystem.gameState # Null =>
    /\ allGone("score_multiplier") =>
         powerUpSystem.gameState.scoreMultiplier = HostGameState.scoreMultiplier
    /\ allGone("speed_boost") =>
         powerUpSystem.gameState.speedMultiplier = HostGameState.speedMultiplier

\* C39: an activation of instant_points adds exactly 500 to the score,
\* however many were collected before, and leaves no instant_points
\* instance among the active ones.
C39_InstantPoints ==
  [][ActivatePowerUp("instant_points") =>
       /\ powerUpSystem'.gameState.score = powerUpSystem.gameState.score + 500
       /\ allGone("instant_points")']_vars

====
